---- MODULE Spec2Model ----
(***************************************************************************)
(* Model of the 716Stonks Discord Activity client (DCActivity/src/App.jsx): *)
(*   - the multi-origin JSON fetch layer (fetchJson,                        *)
(*     fetchJsonWithFallback, postJsonWithFallback) over API_BASES;         *)
(*   - the DUAL minigame client: polling, the mutating submit* handlers,    *)
(*     the auto-matchmaking effect and its 2500 ms throttle;                *)
(*   - the trade / shop mutating handlers and their per-entity busy flags;  *)
(*   - the main polling effect: load() rounds, the 5000 ms interval timer   *)
(*     and the restart on a changed viewer id;                              *)
(*   - detectViewerIdentity and the launch-parameter helpers.               *)
(* Strings that the code inspects piecewise (host names, origins, content   *)
(* types) are sequences of tokens; every other string is an atom.           *)
(***************************************************************************)
EXTENDS Integers, Sequences, FiniteSets, TLC

VARIABLES
  \* ---- fetch layer: one fetchJsonWithFallback / postJsonWithFallback call
  fHostname,      \* window.location.hostname
  fProtocol,      \* window.location.protocol
  fRawBase,       \* RAW_API_BASE
  fMethod,        \* "GET" (fetchJsonWithFallback) or "POST" (postJsonWithFallback)
  fUrls,          \* the bases requested so far by the call, in order
  fResps,         \* what each of them answered
  fLastErr,       \* let lastErr
  fResult,        \* the call's settlement: pending, returned value or thrown error
  \* ---- App component state (useState / useRef)
  identityLoading,
  viewerId,
  viewerName,
  viewerAvatar,
  activeTab,
  dualStatus,
  dualCreateBet,
  dualGuess,
  dualBusy,
  dualAutoActionAtRef,
  tradeMsg,
  tradeBusyBySymbol,
  shopBusyByName,
  \* ---- environment
  now,            \* Date.now()
  srvGame,        \* the backend's session the viewer is in (current_game)
  srvLobbies,     \* the backend's open_lobbies listing
  polls,          \* duel-status GETs in flight that the polling loops issued
  dualOps,        \* submitDual* calls that have not returned yet
  tradeOps,       \* submitTrade calls that have not returned yet
  shopOps,        \* submitShopBuy / submitShopSellOne calls that have not returned yet
  hist,           \* the History tab: page, rows, total, error, loading, requests in flight
  \* ---- history of the auto-matchmaking effect
  lastAutoReqAt,  \* Date.now() of the last auto action that sent a request
  prevAutoReqAt,  \* ... and of the one before it
  autoFired,      \* what the effect did in the latest step, if it acted in it
  \* ---- App component state written by the main polling loop
  loading,
  error,
  stocks,
  stats,
  shopItems,
  statusData,
  statusError,
  dualError,
  lastUpdated,
  \* ---- the main polling effect
  loops,          \* its instances so far: closure viewerId, `mounted`, `timer`
  rounds,         \* load() calls that have not returned yet
  starts,         \* history: every load() call so far, in order
  settled,        \* history: the last load() calls that returned, in order
  \* ---- one call of detectViewerIdentity()
  idSearch,       \* window.location.search, the parameters the function reads
  idWindow,       \* typeof window !== "undefined"
  idClientId,     \* DISCORD_CLIENT_ID
  idPc,           \* the await the call is at
  idResult,       \* what the call resolved to, or the error it rejected with
  sdkLog          \* history: the SDK calls made so far and what each came to

tradeShopVars == <<tradeBusyBySymbol, shopBusyByName, tradeOps, shopOps>>

marketVars == <<tradeShopVars, hist>>

loopVars == <<loading, error, stocks, stats, shopItems, statusData, statusError, dualError,
              lastUpdated, loops, rounds, starts, settled>>

\* The call of detectViewerIdentity and the state only its result is written to.
idVars == <<idSearch, idWindow, idClientId, idPc, idResult, sdkLog, viewerName, viewerAvatar>>

appVars == <<identityLoading, viewerId, activeTab, dualStatus, dualCreateBet, dualGuess,
             dualBusy, dualAutoActionAtRef, tradeMsg, now, srvGame, srvLobbies, polls,
             dualOps, lastAutoReqAt, prevAutoReqAt, autoFired, marketVars, loopVars, idVars>>

fetchVars == <<fHostname, fProtocol, fRawBase, fMethod, fUrls, fResps, fLastErr, fResult>>

Null == "null"

Min(a, b) == IF a <= b THEN a ELSE b

Last(s) == s[Len(s)]

RemoveAt(s, i) == SubSeq(s, 1, i - 1) \o SubSeq(s, i + 1, Len(s))

(***************************************************************************)
(* Origin resolution (App.jsx lines 3-39).                                  *)
(***************************************************************************)

\* Host names the page can be served from, as token sequences.
HostNames ==
  { <<"localhost">>,
    <<"stonks", "-activity.", "cfm1.uk">>,
    <<"a", "-activity.", "b", "-activity.", "cfm1.uk">>,
    <<"1234", ".discordsays.com">>,
    <<"stonks", "-activity.", "1234", ".discordsays.com">> }

Protocols == {"https:", "http:"}

\* Values of VITE_API_BASE after String(...).trim().
RawApiBases ==
  { <<>>,
    <<"/">>,
    <<"https:", "//", "api", ".", "cfm1.uk">>,
    <<"https:", "//", "stonks", ".", "cfm1.uk", "/", "/">> }

RECURSIVE normalizeBase(_)
normalizeBase(value) ==
  IF Len(value) > 0 /\ Last(value) = "/"
  THEN normalizeBase(SubSeq(value, 1, Len(value) - 1))
  ELSE value

endsWithDiscordSays(hostname) ==
  Len(hostname) > 0 /\ Last(hostname) = ".discordsays.com"

buildApiBases(hostname, rawBase) ==
  LET envBase == normalizeBase(rawBase)
  IN  IF endsWithDiscordSays(hostname) THEN << <<>> >>
      ELSE IF envBase = <<>> THEN << <<>> >>
      ELSE <<envBase>>

includesActivity(hostname) == \E i \in 1..Len(hostname) : hostname[i] = "-activity."

\* String.prototype.replace with a string pattern: the first occurrence only.
replaceFirstActivity(hostname) ==
  LET i == CHOOSE k \in 1..Len(hostname) :
             /\ hostname[k] = "-activity."
             /\ \A j \in 1..(k - 1) : hostname[j] # "-activity."
  IN  [hostname EXCEPT ![i] = "."]

inferDashboardBase(protocol, hostname) ==
  IF ~includesActivity(hostname) THEN <<>>
  ELSE normalizeBase(<<protocol, "//">> \o replaceFirstActivity(hostname))

\* The list built without bases.filter(...).
API_BASES_NoFilter(protocol, hostname, rawBase) ==
  LET inferred == inferDashboardBase(protocol, hostname)
      bases    == buildApiBases(hostname, rawBase)
  IN  IF inferred # <<>> THEN <<inferred>> \o bases \o << <<>> >>
      ELSE bases

API_BASES(protocol, hostname, rawBase) ==
  LET inferred == inferDashboardBase(protocol, hostname)
      bases    == buildApiBases(hostname, rawBase)
      filtered == SelectSeq(bases, LAMBDA b : b # inferred /\ b # <<>>)
  IN  IF inferred # <<>> THEN <<inferred>> \o filtered \o << <<>> >>
      ELSE bases

(***************************************************************************)
(* One HTTP exchange (fetch + header/body inspection).                      *)
(***************************************************************************)

BODY_SLICE == 180

\* Content-Type header values, as token sequences (empty = header absent).
CT_JSON      == <<"application/json">>
CT_JSON_UP   == <<"Application/JSON", "; charset=utf-8">>
CT_HTML      == <<"text/html">>
CT_NONE      == <<>>

toLowerCase(tok) == IF tok = "Application/JSON" THEN "application/json" ELSE tok

includesJson(contentType) ==
  \E i \in 1..Len(contentType) : toLowerCase(contentType[i]) = "application/json"

Payloads == {"p1", "p2"}

\* What one origin can answer.  net = FALSE: fetch() itself rejected.
\* json = FALSE: the body does not parse, res.json() rejects.
Responses ==
  { [net |-> FALSE, ok |-> FALSE, status |-> 0, ctype |-> CT_NONE, bodyLen |-> 0,
     json |-> FALSE, payload |-> Null, msg |-> m] : m \in {"Failed to fetch", ""} }
  \cup
  { [net |-> TRUE, ok |-> FALSE, status |-> s, ctype |-> c, bodyLen |-> b,
     json |-> FALSE, payload |-> Null, msg |-> Null] :
       s \in {404, 502}, c \in {CT_JSON, CT_HTML}, b \in {0, 500} }
  \cup
  { [net |-> TRUE, ok |-> TRUE, status |-> 200, ctype |-> c, bodyLen |-> 500,
     json |-> FALSE, payload |-> Null, msg |-> Null] : c \in {CT_HTML, CT_NONE, CT_JSON} }
  \cup
  { [net |-> TRUE, ok |-> TRUE, status |-> 200, ctype |-> c, bodyLen |-> 20,
     json |-> TRUE, payload |-> p, msg |-> Null] :
       c \in {CT_JSON, CT_JSON_UP}, p \in Payloads }

\* let lastErr = null
NoError == [kind |-> "none"]

\* The Error thrown by one attempt; `at` stands for the identity of the object.
HttpError(res, at) ==
  [kind |-> "http", status |-> res.status, ctype |-> CT_NONE,
   body |-> Min(res.bodyLen, BODY_SLICE), msg |-> Null, at |-> at]

NotJsonError(res, at) ==
  [kind |-> "not-json", status |-> 0, ctype |-> << >>
     \o [i \in 1..Len(res.ctype) |-> toLowerCase(res.ctype[i])],
   body |-> Min(res.bodyLen, BODY_SLICE), msg |-> Null, at |-> at]

ThrownError(kind, msg, at) ==
  [kind |-> kind, status |-> 0, ctype |-> CT_NONE, body |-> 0, msg |-> msg, at |-> at]

\* What one attempt comes to: a parsed body, or the Error it threw.
Parsed(v) == [ok |-> TRUE, value |-> v, err |-> NoError]
Threw(e)  == [ok |-> FALSE, value |-> Null, err |-> e]

\* A GET attempt that accepts any 2xx response, whatever its content type.
fetchJson_AnyContentType(res, at) ==
  IF ~res.net THEN Threw(ThrownError("fetch", res.msg, at))
  ELSE IF ~res.ok THEN Threw(HttpError(res, at))
  ELSE IF ~res.json THEN Threw(ThrownError("json-parse", "Unexpected token", at))
  ELSE Parsed(res.payload)

\* fetchJson(url): the outcome of one GET attempt, number `at` of the call.
fetchJson(res, at) ==
  IF ~res.net THEN Threw(ThrownError("fetch", res.msg, at))
  ELSE IF ~res.ok THEN Threw(HttpError(res, at))
  ELSE IF ~includesJson(res.ctype) THEN Threw(NotJsonError(res, at))
  ELSE IF ~res.json THEN Threw(ThrownError("json-parse", "Unexpected token", at))
  ELSE Parsed(res.payload)

\* The body of the try block of postJsonWithFallback, for one origin.
postAttempt(res, at) ==
  IF ~res.net THEN Threw(ThrownError("fetch", res.msg, at))
  ELSE IF ~res.ok THEN Threw(HttpError(res, at))
  ELSE IF ~includesJson(res.ctype) THEN Threw(NotJsonError(res, at))
  ELSE IF ~res.json THEN Threw(ThrownError("json-parse", "Unexpected token", at))
  ELSE Parsed(res.payload)

\* A catch block that keeps the first error instead of the latest.
catchError_KeepFirst(lastErr, e) == IF lastErr # NoError THEN lastErr ELSE e

\* catch (e) { lastErr = e; }
catchError(lastErr, e) == e

\* String(lastErr?.message || "").trim() is empty
emptyDetail(err) == err = NoError \/ (err.kind = "fetch" /\ err.msg = "")

\* The Error built at lines 102-106.
ProxyHintError(lastErr) ==
  [kind |-> "proxy-hint", status |-> 0, ctype |-> CT_NONE, body |-> 0,
   msg |-> IF emptyDetail(lastErr) THEN "not-configured: /api -> 716stonks.cfm1.uk/api"
           ELSE "proxy-failed: /api -> 716stonks.cfm1.uk/api",
   at |-> IF lastErr = NoError THEN 0 ELSE lastErr.at,
   detail |-> IF emptyDetail(lastErr) THEN NoError ELSE lastErr]

\* What fetchJsonWithFallback throws after the loop.
getFailure(hostname, lastErr) ==
  IF endsWithDiscordSays(hostname) THEN ProxyHintError(lastErr)
  ELSE IF lastErr # NoError THEN lastErr
  ELSE ThrownError("generic", "Failed to load data", 0)

\* What postJsonWithFallback throws after the loop.
postFailure(hostname, lastErr) ==
  IF lastErr # NoError THEN lastErr
  ELSE ThrownError("generic", "Failed to post data", 0)

(***************************************************************************)
(* The fallback loops, one origin per step (each attempt is an await).      *)
(***************************************************************************)

Pending      == [state |-> "pending", value |-> Null, err |-> NoError]
Idle         == [state |-> "idle", value |-> Null, err |-> NoError]
Returned(v)  == [state |-> "returned", value |-> v, err |-> NoError]
Thrown(e)    == [state |-> "thrown", value |-> Null, err |-> e]

fBases == API_BASES(fProtocol, fHostname, fRawBase)

\* A caller starts fetchJsonWithFallback(path) or postJsonWithFallback(path, body).
FetchCall(method) ==
  /\ fResult.state # "pending"
  /\ fMethod' = method
  /\ fUrls' = <<>>
  /\ fResps' = <<>>
  /\ fLastErr' = NoError
  /\ fResult' = Pending
  /\ UNCHANGED <<fHostname, fProtocol, fRawBase>>
  /\ UNCHANGED appVars

\* A loop that does not return from inside the try block: it goes on to the
\* remaining origins and settles after the last one.
loopStep_NoShortCircuit(out, at, n, failure) ==
  IF at < n THEN Pending
  ELSE IF out.ok THEN Returned(out.value)
  ELSE Thrown(failure)

\* Where the call stands after attempt `at` of n: `return await ...` leaves
\* the loop, a caught error moves to the next origin, and after the last
\* origin the function throws `failure`.
loopStep(out, at, n, failure) ==
  IF out.ok THEN Returned(out.value)
  ELSE IF at < n THEN Pending
  ELSE Thrown(failure)

\* One iteration of the loop of fetchJsonWithFallback; after the last base
\* has failed the function throws in the same step.
GetAttempt(res) ==
  /\ fMethod = "GET"
  /\ fResult.state = "pending"
  /\ Len(fUrls) < Len(fBases)
  /\ LET at   == Len(fUrls) + 1
          out  == fetchJson(res, at)
          err2 == IF out.ok THEN fLastErr ELSE catchError(fLastErr, out.err)
     IN  /\ fUrls' = Append(fUrls, fBases[at])
         /\ fResps' = Append(fResps, res)
         /\ fLastErr' = err2
         /\ fResult' = loopStep(out, at, Len(fBases), getFailure(fHostname, err2))
  /\ UNCHANGED <<fHostname, fProtocol, fRawBase, fMethod>>
  /\ UNCHANGED appVars

\* One iteration of the loop of postJsonWithFallback.
PostAttempt(res) ==
  /\ fMethod = "POST"
  /\ fResult.state = "pending"
  /\ Len(fUrls) < Len(fBases)
  /\ LET at   == Len(fUrls) + 1
          out  == postAttempt(res, at)
          err2 == IF out.ok THEN fLastErr ELSE catchError(fLastErr, out.err)
     IN  /\ fUrls' = Append(fUrls, fBases[at])
         /\ fResps' = Append(fResps, res)
         /\ fLastErr' = err2
         /\ fResult' = loopStep(out, at, Len(fBases), postFailure(fHostname, err2))
  /\ UNCHANGED <<fHostname, fProtocol, fRawBase, fMethod>>
  /\ UNCHANGED appVars

InitFetchVars ==
  /\ fHostname \in HostNames
  /\ fProtocol \in Protocols
  /\ fRawBase \in RawApiBases
  /\ fMethod = "GET"
  /\ fUrls = <<>>
  /\ fResps = <<>>
  /\ fLastErr = NoError
  /\ fResult = Idle

NextFetch ==
  \/ \E m \in {"GET", "POST"} : FetchCall(m)
  \/ \E res \in Responses : GetAttempt(res)
  \/ \E res \in Responses : PostAttempt(res)

(***************************************************************************)
(* Viewer identity: pickLaunchName, pickLaunchUserId, discordAvatarUrl and  *)
(* detectViewerIdentity (App.jsx lines 138-164, 177-232).                   *)
(* Strings are sequences of tokens; " " is white space, a digit is a digit. *)
(***************************************************************************)

Digits == {"0", "1", "2", "3", "4", "5", "6", "7", "8", "9"}

RECURSIVE trimStart(_)
trimStart(str) ==
  IF str # <<>> /\ Head(str) = " " THEN trimStart(Tail(str)) ELSE str

RECURSIVE trimEnd(_)
trimEnd(str) ==
  IF str # <<>> /\ str[Len(str)] = " " THEN trimEnd(SubSeq(str, 1, Len(str) - 1)) ELSE str

\* A trim that removes nothing.
trim_Keep(str) == str

\* String.prototype.trim
trim(str) == trimEnd(trimStart(str))

\* a || b on strings: the empty string is the only falsy one.
orElse(a, b) == IF a # <<>> THEN a ELSE b

\* The parameters of window.location.search that the code reads (absent = "").
Search(username, global_name, display_name, user_name, user_id, id) ==
  [username |-> username, global_name |-> global_name, display_name |-> display_name,
   user_name |-> user_name, user_id |-> user_id, id |-> id]

Searches ==
  { Search(<<>>, <<>>, <<>>, <<>>, <<>>, <<>>),
    Search(<<"Bob">>, <<>>, <<>>, <<>>, <<"4", "2">>, <<>>),
    Search(<<" ">>, <<"Ann">>, <<>>, <<>>, <<"+", "4", "2">>, <<>>),
    Search(<<>>, <<>>, <<" ", "Cy", " ">>, <<>>, <<>>, <<"4", "x">>),
    Search(<<>>, <<>>, <<>>, <<"Dee">>, <<"+">>, <<"7">>),
    Search(<<>>, <<"Eve">>, <<>>, <<>>, <<" ", "7", " ">>, <<>>),
    Search(<<>>, <<>>, <<>>, <<>>, <<"4", "2">>, <<>>) }

ClientIds == { <<>>, <<"cid">> }

pickLaunchName(hasWindow, q) ==
  IF ~hasWindow THEN <<>>
  ELSE trim(orElse(q.username, orElse(q.global_name, orElse(q.display_name, q.user_name))))

\* The parameter is taken as it is, without the digit pattern.
pickLaunchUserId_Unchecked(hasWindow, q) ==
  IF ~hasWindow THEN <<>> ELSE trim(orElse(q.user_id, q.id))

pickLaunchUserId(hasWindow, q) ==
  IF ~hasWindow THEN <<>>
  ELSE LET raw == trim(orElse(q.user_id, q.id))
           normalized == IF raw # <<>> /\ Head(raw) = "+" THEN Tail(raw) ELSE raw
       IN IF raw = <<>> THEN <<>>
          ELSE IF normalized # <<>> /\ \A i \in 1..Len(normalized) : normalized[i] \in Digits
                 THEN normalized
                 ELSE <<>>

discordAvatarUrl(userId, avatarHash) ==
  LET uid == trim(userId)
      av == trim(avatarHash)
  IN IF uid = <<>> \/ av = <<>> THEN <<>>
     ELSE <<"https://cdn.discordapp.com/avatars/">> \o uid \o <<"/">> \o av
            \o <<".png?size=128">>

\* What the promise of detectViewerIdentity() settles to.  A field the
\* returned object does not have (id, avatar_url) reads as "".
NoIdentity == [settled |-> "pending", id |-> <<>>, name |-> <<>>, avatar_url |-> <<>>,
               reason |-> <<>>]
Identity(id, name, avatar_url, reason) ==
  [settled |-> "resolved", id |-> id, name |-> name, avatar_url |-> avatar_url,
   reason |-> reason]
Rejected(detail) ==
  [settled |-> "rejected", id |-> <<>>, name |-> <<>>, avatar_url |-> <<>>,
   reason |-> detail]

\* Lines 178-185 in another order: the host is looked at before the launch name.
earlyReturn_HostFirst(hasWindow, q, hostname, clientId) ==
  LET launchName == pickLaunchName(hasWindow, q)
      launchId == pickLaunchUserId(hasWindow, q)
  IN IF ~hasWindow THEN Identity(<<>>, <<>>, <<>>, <<"no-window">>)
     ELSE IF ~endsWithDiscordSays(hostname)
       THEN Identity(<<>>, <<>>, <<>>, <<"not-discord-activity-host">>)
     ELSE IF launchName # <<>> THEN Identity(launchId, launchName, <<>>, <<"query-param">>)
     ELSE IF clientId = <<>> THEN Identity(<<>>, <<>>, <<>>, <<"missing-client-id">>)
     ELSE NoIdentity

\* Lines 178-185: the returns before the try block; NoIdentity = none taken.
earlyReturn(hasWindow, q, hostname, clientId) ==
  LET launchName == pickLaunchName(hasWindow, q)
      launchId == pickLaunchUserId(hasWindow, q)
  IN IF launchName # <<>> THEN Identity(launchId, launchName, <<>>, <<"query-param">>)
     ELSE IF ~hasWindow THEN Identity(<<>>, <<>>, <<>>, <<"no-window">>)
     ELSE IF ~endsWithDiscordSays(hostname)
       THEN Identity(<<>>, <<>>, <<>>, <<"not-discord-activity-host">>)
     ELSE IF clientId = <<>> THEN Identity(<<>>, <<>>, <<>>, <<"missing-client-id">>)
     ELSE NoIdentity

\* What an SDK call can reject with: an Error with a message, an Error
\* without one (String(err) is then "Error"), or undefined.
SdkErrors ==
  { [kind |-> "Error", message |-> <<"boom">>],
    [kind |-> "Error", message |-> <<>>],
    [kind |-> "undefined", message |-> <<>>] }

\* The message of an error thrown by fetchJsonWithFallback (never empty
\* but for a rejected fetch() whose TypeError has no message).
fetchErrorAsSdkError(e) ==
  [kind |-> "Error",
   message |-> IF e.kind \in {"http", "not-json"} THEN <<e.kind>>
               ELSE IF e.msg = "" \/ e.msg = Null THEN <<>>
               ELSE <<e.msg>>]

\* String(err?.message || err || "").trim()
errorDetail(err) ==
  trim(IF err.message # <<>> THEN err.message
       ELSE IF err.kind = "undefined" THEN <<>>
       ELSE <<"Error">>)

\* A catch block that lets the error through.
catchIdentity_Rethrow(err) == Rejected(errorDetail(err))

\* catch (err) of detectViewerIdentity (lines 225-231).
catchIdentity(err) ==
  LET detail == errorDetail(err)
  IN Identity(<<>>, <<>>, <<>>,
              IF detail # <<>> THEN <<"sdk-init-failed", ": ">> \o detail
              ELSE <<"sdk-init-failed">>)

\* What sdk.commands.authorize can resolve to: auth?.code.
AuthCodes == { <<>>, <<" ">>, <<"c0de">> }

\* The token endpoint's JSON bodies: p1 carries an access_token, p2 does not.
accessTokenOf(payload) == IF payload = "p1" THEN <<"tok">> ELSE <<>>

\* What sdk.commands.authenticate can resolve to: me?.user (absent = all "").
SdkUser(id, global_name, display_name, username, avatar) ==
  [id |-> id, global_name |-> global_name, display_name |-> display_name,
   username |-> username, avatar |-> avatar]

SdkUsers ==
  { SdkUser(<<>>, <<>>, <<>>, <<>>, <<>>),
    SdkUser(<<"7">>, <<>>, <<>>, <<"bob">>, <<"a1">>),
    SdkUser(<<"7">>, <<" ">>, <<"Bob">>, <<"bob">>, <<>>),
    SdkUser(<<"7">>, <<" ">>, <<>>, <<>>, <<"a1">>) }

\* Lines 210-224.
authenticated(user) ==
  LET userId == trim(user.id)
      name == orElse(trim(user.global_name), orElse(trim(user.display_name),
                                                     trim(user.username)))
  IN IF name # <<>>
       THEN Identity(userId, name, discordAvatarUrl(userId, user.avatar),
                     <<"sdk-authenticated">>)
       ELSE Identity(<<>>, <<>>, <<>>, <<"sdk-auth-user-empty">>)

Called(call, arg, threw) == [call |-> call, arg |-> arg, threw |-> threw, got |-> <<>>]

\* The value the last call resolved with, where the code reads one (auth?.code).
gotLast(log, value) == [log EXCEPT ![Len(log)].got = value]

\* A user id as the atom the rest of the model keeps in viewerId.
asAtom(id) ==
  IF id = <<>> THEN ""
  ELSE IF id = <<"7">> THEN "7"
  ELSE IF id = <<"4", "2">> THEN "42"
  ELSE "other"

\* A .then callback that takes the name and the avatar and leaves the id out.
identityThen_DropId(result, prev) ==
  IF result.settled # "resolved" THEN prev
  ELSE [id |-> <<>>, name |-> trim(result.name), avatar |-> trim(result.avatar_url)]

\* .then / .catch of the identity effect (lines 645-660): the viewer state
\* after the promise settled, prev being the state before.  A rejection is
\* swallowed and writes nothing.
identityThen(result, prev) ==
  IF result.settled # "resolved" THEN prev
  ELSE LET nextName == trim(result.name)
           nextId == trim(result.id)
           nextAvatar == trim(result.avatar_url)
       IN IF nextName # <<>>
            THEN [id |-> nextId, name |-> nextName, avatar |-> nextAvatar]
            ELSE [id |-> <<>>, name |-> <<>>, avatar |-> <<>>]

\* An identity with the given id, as detectViewerIdentity returns it: a
\* launch name whose id was discarded, or the authenticated SDK user.
settledWith(id) ==
  IF id = "" THEN Identity(<<>>, <<"Bob">>, <<>>, <<"query-param">>)
  ELSE authenticated(SdkUser(<<id>>, <<>>, <<"Bob">>, <<"bob">>, <<"a1">>))

(***************************************************************************)
(* DUAL client: values.                                                     *)
(***************************************************************************)

AUTO_THROTTLE_MS == 2500

\* Bounds of the model.
TickMs == 1250          \* granularity of the clock
MaxTime == 5000         \* the clock stops here
MaxInFlight == 1        \* duel-status GETs of the polling loops in flight at once
MaxOps == 2             \* submitDual* calls in flight at once

Tabs == {"companies", "dual"}

\* Number(x): [finite, integer, val]; val is the integer part (sign is what matters).
JsNum(finite, integer, val) == [finite |-> finite, integer |-> integer, val |-> val]

Number(str) ==
  CASE str = ""      -> JsNum(TRUE, TRUE, 0)
    [] str = "50"    -> JsNum(TRUE, TRUE, 50)
    [] str = "25"    -> JsNum(TRUE, TRUE, 25)
    [] str = "4.5"   -> JsNum(TRUE, FALSE, 4)
    [] str = "1e999" -> JsNum(FALSE, FALSE, 1)
    [] str = "-5"    -> JsNum(TRUE, TRUE, -5)
    [] OTHER         -> JsNum(FALSE, FALSE, 0)

\* What the bet and guess <input type="number"> can hold.
BetInputs == {"50", ""}
GuessInputs == {"", "4.5"}

\* ... and the strings a caller of the handlers can find in dualCreateBet and
\* dualGuess, and the room codes it can pass to submitDualJoin.
BetStrings == {"50", "", "-5", "1e999"}
GuessStrings == {"", "4.5", "50"}
JoinCodes == {"", " ", "ab12"}

\* String(x || "").trim().toUpperCase() on room codes.
trimUpper(code) ==
  CASE code = "ab12" -> "AB12"
    [] code = " " -> ""
    [] OTHER -> code

NoGame == [code |-> "", status |-> "none", player_count |-> 0, viewer_ready |-> FALSE]

Game(code, status, pc, ready) ==
  [code |-> code, status |-> status, player_count |-> pc, viewer_ready |-> ready]

Listing(code, host, status, pc) ==
  [code |-> code, host_user_id |-> host, status |-> status, player_count |-> pc]

OwnLobby   == Listing("XY99", "7", "lobby", 1)
ActiveRoom == Listing("EF56", "9", "active", 2)
EmptyRoom  == Listing("GH78", "9", "lobby", 0)
Joinable1  == Listing("ab12", "9", "lobby", 1)
Joinable2  == Listing("CD34", "8", "lobby", 2)

\* The open_lobbies listings the backend can report.
LobbyLists ==
  { <<OwnLobby, ActiveRoom, EmptyRoom>>,
    <<OwnLobby, ActiveRoom, EmptyRoom, Joinable1, Joinable2>> }

\* dualStatus: null <-> loaded = FALSE.
NullStatus == [loaded |-> FALSE, current_game |-> NoGame, open_lobbies |-> <<>>]
StatusOf(game, lobbies) == [loaded |-> TRUE, current_game |-> game, open_lobbies |-> lobbies]

\* A GET in flight: not yet answered, answered with JSON, or failed on every origin.
Unserved == [state |-> "unserved", data |-> NullStatus]
Served(data) == [state |-> "ok", data |-> data]
Failed == [state |-> "fail", data |-> NullStatus]

\* setTradeMsg argument; NoMsg: setTradeMsg is not called.
NoMsg == <<"-">>

NoOp == [kind |-> "none", auto |-> FALSE, phase |-> "none", res |-> "none",
         code |-> "", bet |-> 0, guess |-> 0, hint |-> "", snap |-> Unserved]

\* A submitDual* call suspended in `await postJsonWithFallback(...)`.
Op(kind, code, bet, guess) ==
  [kind |-> kind, auto |-> FALSE, phase |-> "post", res |-> "none",
   code |-> code, bet |-> bet, guess |-> guess, hint |-> "", snap |-> Unserved]

\* A test that lets every viewer id through, the empty one too.
noViewer_Never(vid) == FALSE

\* !viewerId, the first test of every mutating handler and of the
\* auto-matchmaking effect, and a disjunct of every disabled= expression.
noViewer(vid) == vid = ""

NoCall == [send |-> FALSE, msg |-> NoMsg, op |-> NoOp]

\* A test that lets a bet of 0 through.
validBet_NonNegative(str) == Number(str).finite /\ Number(str).val >= 0

\* Number.isFinite(bet) && bet > 0, negated at lines 516, 568.
validBet(str) == Number(str).finite /\ Number(str).val > 0

(***************************************************************************)
(* The synchronous head of each submitDual* handler: validation, then the   *)
(* request it sends.                                                        *)
(***************************************************************************)

submitDualCreate(vid, betStr) ==
  IF noViewer(vid) THEN NoCall
  ELSE IF ~validBet(betStr)
    THEN [send |-> FALSE, msg |-> <<"DUAL create failed", "bet must be greater than 0">>,
          op |-> NoOp]
  ELSE [send |-> TRUE, msg |-> NoMsg, op |-> Op("create", "", Number(betStr).val, 0)]

submitDualJoin(vid, codeFromList) ==
  LET code == trimUpper(codeFromList)
  IN  IF noViewer(vid) THEN NoCall
      ELSE IF code = ""
        THEN [send |-> FALSE, msg |-> <<"DUAL join failed", "room code is required">>,
              op |-> NoOp]
      ELSE [send |-> TRUE, msg |-> NoMsg, op |-> Op("join", code, 0, 0)]

submitDualReady(vid, ds, betStr) ==
  LET code == trimUpper(ds.current_game.code)
  IN  IF noViewer(vid) THEN NoCall
      ELSE IF code = "" THEN NoCall
      ELSE IF ~validBet(betStr)
        THEN [send |-> FALSE, msg |-> <<"DUAL ready failed", "bet must be greater than 0">>,
              op |-> NoOp]
      ELSE [send |-> TRUE, msg |-> NoMsg, op |-> Op("ready", code, Number(betStr).val, 0)]

submitDualGuess(vid, ds, guessStr) ==
  LET code == trimUpper(ds.current_game.code)
  IN  IF noViewer(vid) THEN NoCall
      ELSE IF code = "" THEN NoCall
      ELSE IF ~Number(guessStr).integer
        THEN [send |-> FALSE, msg |-> <<"DUAL guess failed", "enter an integer">>,
              op |-> NoOp]
      ELSE [send |-> TRUE, msg |-> NoMsg, op |-> Op("guess", code, 0, Number(guessStr).val)]

(***************************************************************************)
(* The auto-matchmaking effect (lines 615-639).                             *)
(***************************************************************************)

\* Mutant: the host of the listing is not compared with the viewer.
isJoinable_AnyHost(l, vid) ==
  /\ l.status = "lobby"
  /\ l.player_count >= 1

isJoinable(l, vid) ==
  /\ l.status = "lobby"
  /\ l.host_user_id # vid
  /\ l.player_count >= 1

\* lobbies.find(...): index of the first joinable listing, 0 if there is none.
findJoinable(lobbies, vid) ==
  IF \E i \in 1..Len(lobbies) : isJoinable(lobbies[i], vid)
  THEN CHOOSE i \in 1..Len(lobbies) :
         /\ isJoinable(lobbies[i], vid)
         /\ \A j \in 1..(i - 1) : ~isJoinable(lobbies[j], vid)
  ELSE 0

NotFired(ref) == [fired |-> FALSE, ref |-> ref, call |-> NoCall, lobby |-> 0]

\* Mutant: without the create that follows when no lobby is joinable.
autoAction_JoinOnly(vid, ds, betStr, t) ==
  LET j == findJoinable(ds.open_lobbies, vid)
  IN  IF j # 0
      THEN [fired |-> TRUE, ref |-> t,
            call |-> submitDualJoin(vid, ds.open_lobbies[j].code), lobby |-> j]
      ELSE NotFired(t)

\* The choice between join and create (lines 622-638).
autoAction(vid, ds, betStr, t) ==
  LET j == findJoinable(ds.open_lobbies, vid)
  IN  IF j # 0
      THEN [fired |-> TRUE, ref |-> t,
            call |-> submitDualJoin(vid, ds.open_lobbies[j].code), lobby |-> j]
      ELSE [fired |-> TRUE, ref |-> t,
            call |-> submitDualCreate(vid, betStr), lobby |-> 0]

\* Mutant: no `if (!dualStatus) return`.
autoMatchEffect_Blind(tab, vid, busy, ds, betStr, t, ref) ==
  IF tab # "dual" THEN NotFired(ref)
  ELSE IF noViewer(vid) THEN NotFired(ref)
  ELSE IF busy THEN NotFired(ref)
  ELSE IF t - ref < AUTO_THROTTLE_MS THEN NotFired(ref)
  ELSE IF ds.current_game # NoGame THEN NotFired(ref)
  ELSE autoAction(vid, ds, betStr, t)

\* Mutant: no `if (activeTab !== "dual") return`.
autoMatchEffect_AnyTab(tab, vid, busy, ds, betStr, t, ref) ==
  IF noViewer(vid) THEN NotFired(ref)
  ELSE IF busy THEN NotFired(ref)
  ELSE IF ~ds.loaded THEN NotFired(ref)
  ELSE IF t - ref < AUTO_THROTTLE_MS THEN NotFired(ref)
  ELSE IF ds.current_game # NoGame THEN NotFired(ref)
  ELSE autoAction(vid, ds, betStr, t)

\* Mutant: no throttle on Date.now() - dualAutoActionAtRef.current.
autoMatchEffect_NoThrottle(tab, vid, busy, ds, betStr, t, ref) ==
  IF tab # "dual" THEN NotFired(ref)
  ELSE IF noViewer(vid) THEN NotFired(ref)
  ELSE IF busy THEN NotFired(ref)
  ELSE IF ~ds.loaded THEN NotFired(ref)
  ELSE IF ds.current_game # NoGame THEN NotFired(ref)
  ELSE autoAction(vid, ds, betStr, t)

\* Mutant: no `if (dualBusy) return`.
autoMatchEffect_IgnoreBusy(tab, vid, busy, ds, betStr, t, ref) ==
  IF tab # "dual" THEN NotFired(ref)
  ELSE IF noViewer(vid) THEN NotFired(ref)
  ELSE IF ~ds.loaded THEN NotFired(ref)
  ELSE IF t - ref < AUTO_THROTTLE_MS THEN NotFired(ref)
  ELSE IF ds.current_game # NoGame THEN NotFired(ref)
  ELSE autoAction(vid, ds, betStr, t)

\* One evaluation of the effect at time t, with the values of the render it
\* belongs to.  fired: an auto action was chosen (the ref was stamped).
autoMatchEffect(tab, vid, busy, ds, betStr, t, ref) ==
  IF tab # "dual" THEN NotFired(ref)
  ELSE IF noViewer(vid) THEN NotFired(ref)
  ELSE IF busy THEN NotFired(ref)
  ELSE IF ~ds.loaded THEN NotFired(ref)
  ELSE IF t - ref < AUTO_THROTTLE_MS THEN NotFired(ref)
  ELSE IF ds.current_game # NoGame THEN NotFired(ref)
  ELSE autoAction(vid, ds, betStr, t)

(***************************************************************************)
(* Render-time enabling of the duel controls (lines 1024-1113).             *)
(***************************************************************************)

duelPanelShown == activeTab = "dual" /\ ~noViewer(viewerId) /\ ~identityLoading

betInputDisabled == dualBusy

\* Mutant: READY is not disabled by the player count.
readyDisabled_AnyCount ==
  \/ dualBusy
  \/ ~Number(dualCreateBet).finite
  \/ Number(dualCreateBet).val <= 0
  \/ dualStatus.current_game.viewer_ready

\* Mutant: READY is not disabled by dualBusy.
readyDisabled_IgnoreBusy ==
  \/ dualStatus.current_game.player_count < 2
  \/ ~Number(dualCreateBet).finite
  \/ Number(dualCreateBet).val <= 0
  \/ dualStatus.current_game.viewer_ready

readyDisabled ==
  \/ dualBusy
  \/ dualStatus.current_game.player_count < 2
  \/ ~Number(dualCreateBet).finite
  \/ Number(dualCreateBet).val <= 0
  \/ dualStatus.current_game.viewer_ready

guessInputDisabled == dualBusy

submitGuessDisabled == dualBusy

lobbyControlsShown ==
  duelPanelShown /\ dualStatus.loaded /\ dualStatus.current_game.status = "lobby"

activeControlsShown ==
  duelPanelShown /\ dualStatus.loaded /\ dualStatus.current_game.status = "active"

(***************************************************************************)
(* Commit of a render and the effects that follow it.                       *)
(***************************************************************************)

\* run() of the duel polling effect sends its GET.  fetch() has no timeout:
\* beyond MaxInFlight pending GETs, the new one is a request that never
\* settles, so it is not tracked.
issuePoll(ps) == IF Len(ps) < MaxInFlight THEN Append(ps, Unserved) ELSE ps

NoEval == [eval |-> FALSE, busy |-> FALSE, fired |-> FALSE, send |-> FALSE,
           kind |-> "none", lobby |-> 0]

\* busy: the dualBusy of the render the evaluation belongs to.
EvalOf(eff, busy) ==
  [eval |-> TRUE, busy |-> busy, fired |-> eff.fired, send |-> eff.call.send,
   kind |-> eff.call.op.kind, lobby |-> eff.lobby]

\* React commits the state (tab2, vid2, busy2, ds2, msg2) and runs the effects
\* whose dependencies changed, in source order:
\*   duel polling effect (lines 401-419), deps [activeTab, viewerId, dualBusy]:
\*     run() is called at once and issues refreshStatusAndDual unless busy;
\*   auto-matchmaking effect (lines 615-639), deps [activeTab, viewerId,
\*     dualBusy, dualStatus]: may call submitDualJoin / submitDualCreate, whose
\*     setDualBusy(true) gives a second render in which both effects return.
Commit(tab2, vid2, busy2, ds2, msg2, polls2, ops2, pollDeps, matchDeps) ==
  LET pollIssue == pollDeps /\ tab2 = "dual" /\ vid2 # "" /\ ~busy2
      eff == IF matchDeps
             THEN autoMatchEffect(tab2, vid2, busy2, ds2, dualCreateBet, now,
                                  dualAutoActionAtRef)
             ELSE NotFired(dualAutoActionAtRef)
  IN  /\ eff.call.send => Len(ops2) < MaxOps
      /\ activeTab' = tab2
      /\ viewerId' = vid2
      /\ dualStatus' = ds2
      /\ dualBusy' = (busy2 \/ eff.call.send)
      /\ tradeMsg' = IF eff.call.msg # NoMsg THEN eff.call.msg ELSE msg2
      /\ polls' = IF pollIssue THEN issuePoll(polls2) ELSE polls2
      /\ dualOps' = IF eff.call.send
                    THEN Append(ops2, [eff.call.op EXCEPT !.auto = TRUE])
                    ELSE ops2
      /\ dualAutoActionAtRef' = eff.ref
      /\ lastAutoReqAt' = IF eff.call.send THEN now ELSE lastAutoReqAt
      /\ prevAutoReqAt' = IF eff.call.send THEN lastAutoReqAt ELSE prevAutoReqAt
      /\ autoFired' = IF eff.fired THEN EvalOf(eff, busy2) ELSE NoEval

(***************************************************************************)
(* Main polling loop: values (App.jsx lines 5, 298-364).                    *)
(***************************************************************************)

REFRESH_MS == 5000

\* Bounds of the main polling loop.
LoopTickMs == 2500      \* granularity of the clock while the loop is observed
MaxLoopTime == 12500    \* ... and where that clock stops
MaxRounds == 2          \* load() calls in flight at once

\* What a round fetches: Promise.all([stocks, stats]), then shop, then, with a
\* viewer id, Promise.allSettled([status, dual]).
MarketSubs == {"stocks", "stats"}
UserSubs == {"status", "dual"}
subFetches(vid) == MarketSubs \cup {"shop"} \cup (IF vid # "" THEN UserSubs ELSE {})

\* A fetched value carries the time its round started and the user_id it was
\* fetched with; NoData is the initial [] / null.
Stamp(at, vid) == [at |-> at, vid |-> vid]
NoData == [at |-> 0, vid |-> ""]

LoadFailed == "transport-error"     \* e.message of a failed fetch

\* One run of the effect: the viewerId of its closure, `let mounted = true`,
\* and `timer`: when setInterval fires next, NoTimer once cleared.
NoTimer == 0 - 1
LoopInst(vid, t) == [vid |-> vid, mounted |-> TRUE, startedAt |-> t, nextAt |-> t + REFRESH_MS]

\* The effect's cleanup (lines 360-363).
cleanup_KeepTimer(l) == [l EXCEPT !.mounted = FALSE]
cleanup(l) == [l EXCEPT !.mounted = FALSE, !.nextAt = NoTimer]

\* One load() call: its effect instance, its start, the await it is at, the
\* fetches it issued, those that failed, those whose result it wrote, and
\* whether it called setError with a message.
Round(inst, t) ==
  [inst |-> inst, at |-> t, phase |-> "market", issued |-> MarketSubs, failed |-> {},
   written |-> {}, setError |-> FALSE]

\* `load(); const timer = setInterval(load, REFRESH_MS)` (lines 358-359).
effectBody_NoImmediateLoad(ls, rs, vid, t) ==
  [loops |-> Append(ls, LoopInst(vid, t)), rounds |-> rs, started |-> <<>>]
effectBody(ls, rs, vid, t) ==
  [loops |-> Append(ls, LoopInst(vid, t)),
   rounds |-> Append(rs, Round(Len(ls) + 1, t)),
   started |-> << [inst |-> Len(ls) + 1, at |-> t] >>]

\* The effect re-runs when viewerId changed: cleanup of the running instance,
\* then the body with the new viewerId (deps [viewerId], line 364).
rerunEffect(ls, rs, vid, t) ==
  effectBody([k \in 1..Len(ls) |-> cleanup(ls[k])], rs, vid, t)

KeepLast(s, n) == IF Len(s) <= n THEN s ELSE SubSeq(s, Len(s) - n + 1, Len(s))
SettledKept == 2

(***************************************************************************)
(* The History tab (App.jsx lines 248-253, 366-399, 1173-1188).             *)
(***************************************************************************)

HISTORY_LIMIT == 20

\* Bounds of the History tab.
MaxHistoryRuns == 4     \* runs of the history effect that send a request
MaxHistoryReqs == 2     \* history GETs in flight at once

\* json.total of a response.
HistoryTotals == {0, 45}

\* Rows are known by the request that fetched them: the run of the effect, its
\* page and its viewerId.  NoRows is [].
RowsOf(run, page, vid) == [run |-> run, page |-> page, vid |-> vid]
NoRows == RowsOf(0, 0, "")

\* One loadHistory() call suspended in its await, with the `mounted` of the
\* effect run it belongs to.
HistoryReq(run, page, vid) == [rows |-> RowsOf(run, page, vid), mounted |-> TRUE]

\* wrote: history, the request whose result was written last.
InitHist ==
  [page |-> 0, rows |-> NoRows, total |-> 0, error |-> "", loading |-> FALSE,
   run |-> 0, reqs |-> <<>>, wrote |-> NoRows]

\* Mutant: the cleanup leaves `mounted` as it is.
historyCleanup_Keep(h) == h

\* return () => { mounted = false } (lines 395-397).
historyCleanup(h) ==
  [h EXCEPT !.reqs = [k \in 1..Len(h.reqs) |-> [h.reqs[k] EXCEPT !.mounted = FALSE]]]

\* A dependency of the history effect changed (line 398): cleanup of the
\* previous run, then the body with the values of the new render.
historyEffect(h, tab, vid, page) ==
  LET c == [historyCleanup(h) EXCEPT !.page = page]
  IN  IF tab # "history" THEN c
      ELSE IF vid = ""
        THEN [c EXCEPT !.rows = NoRows, !.total = 0, !.error = ""]
        ELSE [c EXCEPT !.loading = TRUE,
                       !.run = h.run + 1,
                       !.reqs = Append(c.reqs, HistoryReq(h.run + 1, page, vid))]

\* loadHistory after its await returned (lines 381-384) and finally.
historyReturned(h, i, total) ==
  LET r == h.reqs[i]
      rest == [h EXCEPT !.reqs = RemoveAt(h.reqs, i)]
  IN  IF ~r.mounted THEN rest
      ELSE [rest EXCEPT !.rows = r.rows, !.total = total, !.error = "",
                        !.loading = FALSE, !.wrote = r.rows]

\* loadHistory after its await threw (lines 385-388) and finally.
historyThrew(h, i) ==
  LET r == h.reqs[i]
      rest == [h EXCEPT !.reqs = RemoveAt(h.reqs, i)]
  IN  IF ~r.mounted THEN rest
      ELSE [rest EXCEPT !.rows = NoRows, !.error = "transport-error",
                        !.loading = FALSE, !.wrote = r.rows]

(***************************************************************************)
(* Client actions.                                                          *)
(***************************************************************************)

\* detectViewerIdentity() settles (lines 641-666); a changed viewerId re-runs the
\* effects that depend on it, the main polling effect among them.
identitySettled(result) ==
  /\ identityLoading
  /\ identityLoading' = FALSE
  /\ LET w == identityThen(result, [id |-> <<>>, name |-> viewerName, avatar |-> viewerAvatar])
         id == IF result.settled = "resolved" THEN asAtom(w.id) ELSE viewerId
     IN /\ viewerName' = w.name
        /\ viewerAvatar' = w.avatar
        /\ Commit(activeTab, id, dualBusy, dualStatus, tradeMsg, polls, dualOps,
                  id # viewerId, id # viewerId)
        /\ IF id # viewerId
             THEN /\ Len(rounds) < MaxRounds
                  /\ LET e == rerunEffect(loops, rounds, id, now) IN
                       /\ loops' = e.loops
                       /\ rounds' = e.rounds
                       /\ starts' = starts \o e.started
             ELSE UNCHANGED <<loops, rounds, starts>>
  /\ UNCHANGED <<loading, error, stocks, stats, shopItems, statusData, statusError,
                 dualError, lastUpdated, settled>>
  /\ UNCHANGED <<dualCreateBet, dualGuess, now, srvGame, srvLobbies>>
  /\ UNCHANGED <<idSearch, idWindow, idClientId, sdkLog, fetchVars, marketVars>>

\* detectViewerIdentity() in one step: it returns an identity with this id.
DetectDone(id) ==
  /\ idPc = "start"
  /\ idResult' = settledWith(id)
  /\ idPc' = "done"
  /\ identitySettled(settledWith(id))

\* The promise of the call that was followed await by await settles.
IdSettle ==
  /\ idPc = "done"
  /\ identitySettled(idResult)
  /\ UNCHANGED <<idPc, idResult>>

\* A menu button: setActiveTab(t) (lines 693-726).
SetActiveTab(t) ==
  /\ ~identityLoading
  /\ t # activeTab
  /\ Commit(t, viewerId, dualBusy, dualStatus, tradeMsg, polls, dualOps, TRUE, TRUE)
  /\ hist' = historyEffect(hist, t, viewerId, hist.page)
  /\ UNCHANGED <<identityLoading, dualCreateBet, dualGuess, now, srvGame, srvLobbies>>
  /\ UNCHANGED <<idVars, fetchVars, tradeShopVars, loopVars>>

\* What a History action leaves alone.
historyFrame ==
  /\ autoFired' = NoEval
  /\ UNCHANGED <<identityLoading, viewerId, activeTab, dualStatus, dualCreateBet, dualGuess,
                 dualBusy, dualAutoActionAtRef, tradeMsg, now, srvGame, srvLobbies, polls,
                 dualOps, lastAutoReqAt, prevAutoReqAt>>
  /\ UNCHANGED <<idVars, fetchVars, tradeShopVars, loopVars>>

\* A run of the history effect that sends a request stays within the bounds.
historyRoom == viewerId # "" => (hist.run < MaxHistoryRuns /\ Len(hist.reqs) < MaxHistoryReqs)

\* The History menu button: setHistoryPage(0); setActiveTab("history")
\* (line 724), one render.
OpenHistory ==
  /\ ~identityLoading
  /\ activeTab # "history" \/ hist.page # 0
  /\ historyRoom
  /\ Commit("history", viewerId, dualBusy, dualStatus, tradeMsg, polls, dualOps,
            activeTab # "history", activeTab # "history")
  /\ hist' = historyEffect(hist, "history", viewerId, 0)
  /\ UNCHANGED <<identityLoading, dualCreateBet, dualGuess, now, srvGame, srvLobbies>>
  /\ UNCHANGED <<idVars, fetchVars, tradeShopVars, loopVars>>

\* Prev (d = -1, lines 1177-1181) and Next (d = 1, lines 1184-1188).
HistoryPage(d) ==
  /\ ~identityLoading
  /\ activeTab = "history"
  /\ IF d = 1 THEN (hist.page + 1) * HISTORY_LIMIT < hist.total ELSE hist.page > 0
  /\ historyRoom
  /\ hist' = historyEffect(hist, activeTab, viewerId, hist.page + d)
  /\ historyFrame

\* The GET of the request hist.reqs[i] returned a body with this total:
\* loadHistory resumes (lines 381-384, 389-391).
HistoryDeliver(i, total) ==
  /\ i \in 1..Len(hist.reqs)
  /\ hist' = historyReturned(hist, i, total)
  /\ historyFrame

\* The GET failed on every origin: catch, finally (lines 385-391).
HistoryFail(i) ==
  /\ i \in 1..Len(hist.reqs)
  /\ hist' = historyThrew(hist, i)
  /\ historyFrame

\* onChange of a bet input (lines 1025-1031, 1066-1073).
SetBet(v) ==
  /\ duelPanelShown
  /\ ~betInputDisabled
  /\ v # dualCreateBet
  /\ dualCreateBet' = v
  /\ autoFired' = NoEval
  /\ UNCHANGED <<identityLoading, viewerId, activeTab, dualStatus, dualGuess, dualBusy,
                 dualAutoActionAtRef, tradeMsg, now, srvGame, srvLobbies, polls, dualOps,
                 lastAutoReqAt, prevAutoReqAt>>
  /\ UNCHANGED <<idVars, fetchVars, marketVars, loopVars>>

\* onChange of the guess input (lines 1102-1110).
SetGuess(v) ==
  /\ activeControlsShown
  /\ ~guessInputDisabled
  /\ v # dualGuess
  /\ dualGuess' = v
  /\ autoFired' = NoEval
  /\ UNCHANGED <<identityLoading, viewerId, activeTab, dualStatus, dualCreateBet, dualBusy,
                 dualAutoActionAtRef, tradeMsg, now, srvGame, srvLobbies, polls, dualOps,
                 lastAutoReqAt, prevAutoReqAt>>
  /\ UNCHANGED <<idVars, fetchVars, marketVars, loopVars>>

\* A click handler ran `call`, the head of a submitDual* function.
Submitted(call) ==
  /\ call.send => Len(dualOps) < MaxOps
  /\ dualBusy' = (dualBusy \/ call.send)
  /\ dualOps' = IF call.send THEN Append(dualOps, call.op) ELSE dualOps
  /\ tradeMsg' = IF call.msg # NoMsg THEN call.msg ELSE tradeMsg
  /\ autoFired' = NoEval
  /\ UNCHANGED <<identityLoading, viewerId, activeTab, dualStatus, dualCreateBet, dualGuess,
                 dualAutoActionAtRef, now, srvGame, srvLobbies, polls, lastAutoReqAt, prevAutoReqAt>>
  /\ UNCHANGED <<idVars, fetchVars, marketVars, loopVars>>

\* The READY button (lines 1074-1092) -> submitDualReady (lines 561-585).
ClickReady ==
  /\ lobbyControlsShown
  /\ ~readyDisabled
  /\ Submitted(submitDualReady(viewerId, dualStatus, dualCreateBet))

\* The Submit Guess button (line 1111) -> submitDualGuess (lines 587-613).
ClickGuess ==
  /\ activeControlsShown
  /\ ~submitGuessDisabled
  /\ Submitted(submitDualGuess(viewerId, dualStatus, dualGuess))

\* The handlers called as functions: of what the rendered controls require
\* only dualBusy (in every disabled= of the DUAL tab, lines 1024-1113) is kept,
\* the other tests that apply are the handlers' own.
CallCreate ==
  /\ ~identityLoading
  /\ ~dualBusy
  /\ Submitted(submitDualCreate(viewerId, dualCreateBet))

CallJoin(codeFromList) ==
  /\ ~identityLoading
  /\ ~dualBusy
  /\ Submitted(submitDualJoin(viewerId, codeFromList))

CallReady ==
  /\ ~identityLoading
  /\ ~dualBusy
  /\ Submitted(submitDualReady(viewerId, dualStatus, dualCreateBet))

CallGuess ==
  /\ ~identityLoading
  /\ ~dualBusy
  /\ Submitted(submitDualGuess(viewerId, dualStatus, dualGuess))

\* setInterval(run, 1500) of the duel polling effect fires: run() (lines 405-412).
PollTimer ==
  /\ activeTab = "dual"
  /\ ~noViewer(viewerId)
  /\ ~dualBusy
  /\ Len(polls) < MaxInFlight
  /\ polls' = Append(polls, Unserved)
  /\ autoFired' = NoEval
  /\ UNCHANGED <<identityLoading, viewerId, activeTab, dualStatus, dualCreateBet, dualGuess,
                 dualBusy, dualAutoActionAtRef, tradeMsg, now, srvGame, srvLobbies, dualOps,
                 lastAutoReqAt, prevAutoReqAt>>
  /\ UNCHANGED <<idVars, fetchVars, marketVars, loopVars>>

\* A round of load() of the main polling effect reaches its duel-status fetch
\* (lines 322-326); the round runs on every tab and whatever dualBusy is.
LoadRound ==
  /\ ~noViewer(viewerId)
  /\ Len(polls) < MaxInFlight
  /\ polls' = Append(polls, Unserved)
  /\ autoFired' = NoEval
  /\ UNCHANGED <<identityLoading, viewerId, activeTab, dualStatus, dualCreateBet, dualGuess,
                 dualBusy, dualAutoActionAtRef, tradeMsg, now, srvGame, srvLobbies, dualOps,
                 lastAutoReqAt, prevAutoReqAt>>
  /\ UNCHANGED <<idVars, fetchVars, marketVars, loopVars>>

\* The response of a polling GET is applied: setDualStatus(value) after the
\* await of refreshStatusAndDual (lines 289-291) or of load() (lines 335-337).
PollDeliver(i) ==
  /\ i \in 1..Len(polls)
  /\ polls[i].state = "ok"
  /\ Commit(activeTab, viewerId, dualBusy, polls[i].data, tradeMsg, RemoveAt(polls, i),
            dualOps, FALSE, TRUE)
  /\ UNCHANGED <<identityLoading, dualCreateBet, dualGuess, now, srvGame, srvLobbies>>
  /\ UNCHANGED <<idVars, fetchVars, marketVars, loopVars>>

\* The polling GET failed on every origin: setDualStatus(null) (lines 292-295,
\* 338-341).  null -> null is no state change, so no effect runs.
PollFail(i) ==
  /\ i \in 1..Len(polls)
  /\ Commit(activeTab, viewerId, dualBusy, NullStatus, tradeMsg, RemoveAt(polls, i),
            dualOps, FALSE, dualStatus.loaded)
  /\ UNCHANGED <<identityLoading, dualCreateBet, dualGuess, now, srvGame, srvLobbies>>
  /\ UNCHANGED <<idVars, fetchVars, marketVars, loopVars>>

\* The text of setTradeMsg on success (lines 528, 552, 578, 605).
successMsg(op) ==
  CASE op.kind = "create" -> <<"DUAL room created", op.code>>
    [] op.kind = "join"   -> <<"Joined DUAL room", op.code>>
    [] op.kind = "ready"  -> <<"Ready submitted", "">>
    [] op.kind = "guess"  -> IF op.hint # "" THEN <<"DUAL guess result", op.hint>>
                             ELSE <<"DUAL guess submitted", "">>

\* The text of setTradeMsg in the catch block (lines 531, 555, 581, 609).
failureMsg(op, detail) ==
  CASE op.kind = "create" -> <<"DUAL create failed", detail>>
    [] op.kind = "join"   -> <<"DUAL join failed", detail>>
    [] op.kind = "ready"  -> <<"DUAL ready failed", detail>>
    [] op.kind = "guess"  -> <<"DUAL guess failed", detail>>

\* finally { setDualBusy(false) } of the call dualOps[i], after msg was set.
Finally(i, ds2, msg2, dsChanged) ==
  /\ Commit(activeTab, viewerId, FALSE, ds2, msg2, polls, RemoveAt(dualOps, i),
            dualBusy, dualBusy \/ dsChanged)
  /\ UNCHANGED <<identityLoading, dualCreateBet, now, srvGame, srvLobbies>>
  /\ UNCHANGED <<idVars, fetchVars, marketVars, loopVars>>

\* The field is cleared only when the response carried a hint.
guessAfterOk_OnlyWithHint(op, guess) ==
  IF op.kind = "guess" /\ op.hint # "" THEN "" ELSE guess

\* setDualGuess("") of submitDualGuess after an ok response (line 606);
\* the other handlers do not touch the field.
guessAfterOk(op, guess) == IF op.kind = "guess" THEN "" ELSE guess

\* postJsonWithFallback returned { ok: true }: success message, then
\* `await refreshStatusAndDual()` sends its GETs.
OpReplyOk(i) ==
  /\ i \in 1..Len(dualOps)
  /\ dualOps[i].phase = "replied"
  /\ dualOps[i].res = "ok"
  /\ tradeMsg' = successMsg(dualOps[i])
  /\ dualGuess' = guessAfterOk(dualOps[i], dualGuess)
  /\ dualOps' = [dualOps EXCEPT ![i].phase = "refresh"]
  /\ autoFired' = NoEval
  /\ UNCHANGED <<identityLoading, viewerId, activeTab, dualStatus, dualCreateBet, dualBusy,
                 dualAutoActionAtRef, now, srvGame, srvLobbies, polls, lastAutoReqAt, prevAutoReqAt>>
  /\ UNCHANGED <<idVars, fetchVars, marketVars, loopVars>>

\* The `error` field of an { ok: false } body: absent, or the backend's text.
ServerErrors == {"", "server-error"}

\* String(result?.error || "Failed to ...") (lines 527, 551, 577, 603).
rejectionText(op, errorField) ==
  IF errorField # "" THEN errorField
  ELSE CASE op.kind = "create" -> "Failed to create DUAL"
         [] op.kind = "join"   -> "Failed to join DUAL"
         [] op.kind = "ready"  -> "Failed to ready up"
         [] op.kind = "guess"  -> "Failed to submit guess"

\* postJsonWithFallback returned { ok: false }: throw, catch, finally.
OpReplyRejected(i) ==
  /\ i \in 1..Len(dualOps)
  /\ dualOps[i].phase = "replied"
  /\ dualOps[i].res = "rejected"
  /\ dualGuess' = dualGuess
  /\ \E e \in ServerErrors :
       Finally(i, dualStatus, failureMsg(dualOps[i], rejectionText(dualOps[i], e)), FALSE)

\* postJsonWithFallback threw (every origin failed), whether or not the
\* backend had handled the request: catch, finally.
OpTransportError(i) ==
  /\ i \in 1..Len(dualOps)
  /\ dualOps[i].phase \in {"post", "replied"}
  /\ dualGuess' = dualGuess
  /\ Finally(i, dualStatus, failureMsg(dualOps[i], "transport-error"), FALSE)

\* refreshStatusAndDual inside the call resolved with a duel status
\* (lines 289-291); the call returns through finally.
OpRefreshDone(i) ==
  /\ i \in 1..Len(dualOps)
  /\ dualOps[i].phase = "refreshed"
  /\ dualGuess' = dualGuess
  /\ Finally(i, dualOps[i].snap.data, tradeMsg, TRUE)

\* A refresh whose failure reaches the handler's catch block, as the reload
\* of the shop handlers does.
refreshFailed_Throws(op, msg) == failureMsg(op, "transport-error")

\* The message slot after a failed refresh: refreshStatusAndDual takes its
\* GETs through Promise.allSettled and resolves (lines 278-295), so the
\* handler's catch block is not entered.
refreshFailed(op, msg) == msg

\* Its duel-status GET failed on every origin (lines 292-295).
OpRefreshFail(i) ==
  /\ i \in 1..Len(dualOps)
  /\ dualOps[i].phase \in {"refresh", "refreshed"}
  /\ dualGuess' = dualGuess
  /\ Finally(i, NullStatus, refreshFailed(dualOps[i], tradeMsg), dualStatus.loaded)

\* Date.now() advances.
Tick ==
  /\ now + TickMs <= MaxTime
  /\ now' = now + TickMs
  /\ autoFired' = NoEval
  /\ UNCHANGED <<identityLoading, viewerId, activeTab, dualStatus, dualCreateBet, dualGuess,
                 dualBusy, dualAutoActionAtRef, tradeMsg, srvGame, srvLobbies, polls,
                 dualOps, lastAutoReqAt, prevAutoReqAt>>
  /\ UNCHANGED <<idVars, fetchVars, marketVars, loopVars>>

(***************************************************************************)
(* Trade and shop: submitTrade (lines 421-453), submitShopBuy (455-485),    *)
(* submitShopSellOne (487-511) and the buttons that call them.  The rows    *)
(* on display (owned_shares of a company, in_stock of a shop item, the      *)
(* commodities of the account) are inputs of the click: any row the backend *)
(* can list may be the one on screen.                                       *)
(***************************************************************************)

\* The company rows and the shop items of the page, and the one row and
\* item that is acted on where they stand beside the duel client.
Symbols == {"AAA", "BBB"}
ShopNames == {"Potion", "Elixir"}
OneSymbol == {"AAA"}
OneShopName == {"Potion"}
MarketTabs == Tabs \cup {"shop"}

\* Boolean(map[key]): a key that was never written reads as false.
NoneBusy(keys) == [k \in keys |-> FALSE]

\* One flag for all keys.
setBusy_All(prev, key) == [k \in DOMAIN prev |-> TRUE]

\* setTradeBusyBySymbol / setShopBusyByName((prev) => ({ ...prev, [key]: true }))
setBusy(prev, key) == [prev EXCEPT ![key] = TRUE]

\* A finally block that leaves the map as it is.
finallyClear_Skip(prev, key) == prev

\* finally { set...((prev) => ({ ...prev, [key]: false })) } (lines 450-452,
\* 482-484, 508-510)
finallyClear(prev, key) == [prev EXCEPT ![key] = FALSE]

\* The quantity input is left at its default: Number(undefined || 1) = 1.
TradeOp(action, symbol) == [action |-> action, symbol |-> symbol, shares |-> 1]

ShopOp(kind, name) == [kind |-> kind, name |-> name, phase |-> "post"]

\* disabled= of the Buy / Sell buttons of a company row (lines 882-895).
tradeDisabled(action, symbol, owned) ==
  \/ tradeBusyBySymbol[symbol]
  \/ noViewer(viewerId)
  \/ (action = "sell" /\ owned <= 0)

\* disabled= of the Purchase button of a shop card (lines 998-1002).
shopBuyDisabled(name, inStock) == shopBusyByName[name] \/ noViewer(viewerId) \/ ~inStock

\* disabled= of a Sell 1 button of the inventory card (lines 927-931, 960-964).
shopSellDisabled(name) == shopBusyByName[name] \/ noViewer(viewerId)

duelUnchanged ==
  UNCHANGED <<identityLoading, viewerId, activeTab, dualStatus, dualCreateBet, dualGuess,
              dualBusy, dualAutoActionAtRef, now, srvGame, srvLobbies, polls, dualOps,
              lastAutoReqAt, prevAutoReqAt, loopVars, idVars, hist>>

\* Buy or Sell of a company row -> submitTrade up to its await.
ClickTrade(action, symbol, owned) ==
  /\ activeTab = "companies"
  /\ ~tradeDisabled(action, symbol, owned)
  /\ ~noViewer(viewerId)
  /\ tradeBusyBySymbol' = setBusy(tradeBusyBySymbol, symbol)
  /\ tradeOps' = tradeOps \cup {TradeOp(action, symbol)}
  /\ autoFired' = NoEval
  /\ duelUnchanged
  /\ UNCHANGED <<tradeMsg, shopBusyByName, shopOps>>
  /\ UNCHANGED fetchVars

\* The call leaves through finally with tradeMsg set to msg.
TradeFinally(op, msg) ==
  /\ tradeMsg' = msg
  /\ tradeBusyBySymbol' = finallyClear(tradeBusyBySymbol, op.symbol)
  /\ tradeOps' = tradeOps \ {op}
  /\ autoFired' = NoEval
  /\ duelUnchanged
  /\ UNCHANGED <<shopBusyByName, shopOps>>
  /\ UNCHANGED fetchVars

\* The POST returned { ok: true, ... }: setStocks, setTradeMsg (lines 435-446).
TradeReplyOk(op) ==
  /\ op \in tradeOps
  /\ TradeFinally(op, <<IF op.action = "buy" THEN "Bought" ELSE "Sold", op.symbol>>)

\* The POST returned { ok: false }: throw at line 433, catch at 447-449.
TradeReplyRejected(op) ==
  /\ op \in tradeOps
  /\ TradeFinally(op, <<"Trade failed for", op.symbol, "server-error">>)

\* postJsonWithFallback threw: catch at 447-449.
TradeTransportError(op) ==
  /\ op \in tradeOps
  /\ TradeFinally(op, <<"Trade failed for", op.symbol, "transport-error">>)

\* Purchase of a shop card -> submitShopBuy up to its first await.
ClickShopBuy(name, inStock) ==
  /\ activeTab = "shop"
  /\ ~shopBuyDisabled(name, inStock)
  /\ ~noViewer(viewerId)
  /\ shopBusyByName' = setBusy(shopBusyByName, name)
  /\ shopOps' = shopOps \cup {ShopOp("buy", name)}
  /\ autoFired' = NoEval
  /\ duelUnchanged
  /\ UNCHANGED <<tradeMsg, tradeBusyBySymbol, tradeOps>>
  /\ UNCHANGED fetchVars

\* Sell 1 of an owned commodity -> submitShopSellOne up to its first await.
ClickShopSell(name) ==
  /\ activeTab = "shop"
  /\ ~shopSellDisabled(name)
  /\ ~noViewer(viewerId)
  /\ shopBusyByName' = setBusy(shopBusyByName, name)
  /\ shopOps' = shopOps \cup {ShopOp("sell", name)}
  /\ autoFired' = NoEval
  /\ duelUnchanged
  /\ UNCHANGED <<tradeMsg, tradeBusyBySymbol, tradeOps>>
  /\ UNCHANGED fetchVars

shopFailureMsg(op, detail) ==
  <<IF op.kind = "buy" THEN "Shop buy failed for" ELSE "Shop sell failed for",
    op.name, detail>>

\* The call leaves through finally with tradeMsg set to msg.
ShopFinally(op, msg) ==
  /\ tradeMsg' = msg
  /\ shopBusyByName' = finallyClear(shopBusyByName, op.name)
  /\ shopOps' = shopOps \ {op}
  /\ autoFired' = NoEval
  /\ duelUnchanged
  /\ UNCHANGED <<tradeBusyBySymbol, tradeOps>>
  /\ UNCHANGED fetchVars

\* The POST returned { ok: true }: success message, then the two reload GETs
\* are sent (lines 466-476, 495-502).
ShopReplyOk(op) ==
  /\ op \in shopOps
  /\ op.phase = "post"
  /\ tradeMsg' = <<IF op.kind = "buy" THEN "Purchased" ELSE "Sold 1x", op.name>>
  /\ shopOps' = (shopOps \ {op}) \cup {[op EXCEPT !.phase = "reload"]}
  /\ autoFired' = NoEval
  /\ duelUnchanged
  /\ UNCHANGED <<tradeBusyBySymbol, tradeOps, shopBusyByName>>
  /\ UNCHANGED fetchVars

\* The POST returned { ok: false }: throw, catch (lines 463-465, 480-481).
ShopReplyRejected(op) ==
  /\ op \in shopOps
  /\ op.phase = "post"
  /\ ShopFinally(op, shopFailureMsg(op, "server-error"))

\* postJsonWithFallback threw.
ShopTransportError(op) ==
  /\ op \in shopOps
  /\ op.phase = "post"
  /\ ShopFinally(op, shopFailureMsg(op, "transport-error"))

\* Promise.all of the reload resolved: setShopItems, setShopBucket,
\* setStatusData (lines 477-479); the message stays.
ShopReloadDone(op) ==
  /\ op \in shopOps
  /\ op.phase = "reload"
  /\ ShopFinally(op, tradeMsg)

\* One of the reload GETs threw: Promise.all rejects into the same catch.
ShopReloadFail(op) ==
  /\ op \in shopOps
  /\ op.phase = "reload"
  /\ ShopFinally(op, shopFailureMsg(op, "transport-error"))

(***************************************************************************)
(* The backend and the network, as the client observes them (section 6 of   *)
(* the interface: the /api/activity/dual endpoints).                        *)
(***************************************************************************)

NewRoomCode == "XY99"

\* GET /api/activity/dual/status answers { current_game?, open_lobbies[] }.
srvStatus == StatusOf(srvGame, srvLobbies)

\* A polling GET reaches the backend and is answered with its present state.
PollServe(i) ==
  /\ i \in 1..Len(polls)
  /\ polls[i].state = "unserved"
  /\ polls' = [polls EXCEPT ![i] = Served(srvStatus)]
  /\ autoFired' = NoEval
  /\ UNCHANGED <<identityLoading, viewerId, activeTab, dualStatus, dualCreateBet, dualGuess,
                 dualBusy, dualAutoActionAtRef, tradeMsg, now, srvGame, srvLobbies, dualOps,
                 lastAutoReqAt, prevAutoReqAt>>
  /\ UNCHANGED <<idVars, fetchVars, marketVars, loopVars>>

\* The GET of a call's refreshStatusAndDual is answered.
OpRefreshServe(i) ==
  /\ i \in 1..Len(dualOps)
  /\ dualOps[i].phase = "refresh"
  /\ dualOps' = [dualOps EXCEPT ![i].phase = "refreshed", ![i].snap = Served(srvStatus)]
  /\ autoFired' = NoEval
  /\ UNCHANGED <<identityLoading, viewerId, activeTab, dualStatus, dualCreateBet, dualGuess,
                 dualBusy, dualAutoActionAtRef, tradeMsg, now, srvGame, srvLobbies, polls,
                 lastAutoReqAt, prevAutoReqAt>>
  /\ UNCHANGED <<idVars, fetchVars, marketVars, loopVars>>

\* The listing a join names, 0 if no open lobby has that code.
roomOf(code) ==
  IF \E k \in 1..Len(srvLobbies) :
       trimUpper(srvLobbies[k].code) = code /\ srvLobbies[k].status = "lobby"
  THEN CHOOSE k \in 1..Len(srvLobbies) :
         trimUpper(srvLobbies[k].code) = code /\ srvLobbies[k].status = "lobby"
  ELSE 0

\* Whether the backend can accept the request, and the session it yields.
srvAccepts(op) ==
  CASE op.kind = "create" -> srvGame = NoGame
    [] op.kind = "join"   -> srvGame = NoGame /\ roomOf(op.code) # 0
    [] op.kind = "ready"  -> /\ srvGame.status = "lobby"
                             /\ srvGame.code = op.code
                             /\ srvGame.player_count >= 2
                             /\ ~srvGame.viewer_ready
    [] op.kind = "guess"  -> srvGame.status = "active" /\ srvGame.code = op.code

srvAfter(op) ==
  CASE op.kind = "create" -> Game(NewRoomCode, "lobby", 1, FALSE)
    [] op.kind = "join"   ->
         Game(op.code, "lobby", srvLobbies[roomOf(op.code)].player_count + 1, FALSE)
    [] op.kind = "ready"  -> [srvGame EXCEPT !.viewer_ready = TRUE]
    [] op.kind = "guess"  -> srvGame

\* POST /api/activity/dual/{create,join,ready,guess} is handled: { ok: true }.
SrvAccept(i, hint) ==
  /\ i \in 1..Len(dualOps)
  /\ dualOps[i].phase = "post"
  /\ srvAccepts(dualOps[i])
  /\ hint # "" => dualOps[i].kind = "guess"
  /\ srvGame' = srvAfter(dualOps[i])
  /\ dualOps' = [dualOps EXCEPT ![i].phase = "replied", ![i].res = "ok", ![i].hint = hint,
                                ![i].code = IF dualOps[i].kind = "create" THEN NewRoomCode
                                            ELSE dualOps[i].code]
  /\ autoFired' = NoEval
  /\ UNCHANGED <<identityLoading, viewerId, activeTab, dualStatus, dualCreateBet, dualGuess,
                 dualBusy, dualAutoActionAtRef, tradeMsg, now, srvLobbies, polls,
                 lastAutoReqAt, prevAutoReqAt>>
  /\ UNCHANGED <<idVars, fetchVars, marketVars, loopVars>>

\* ... or refused: { ok: false, error }.
SrvReject(i) ==
  /\ i \in 1..Len(dualOps)
  /\ dualOps[i].phase = "post"
  /\ dualOps' = [dualOps EXCEPT ![i].phase = "replied", ![i].res = "rejected"]
  /\ autoFired' = NoEval
  /\ UNCHANGED <<identityLoading, viewerId, activeTab, dualStatus, dualCreateBet, dualGuess,
                 dualBusy, dualAutoActionAtRef, tradeMsg, now, srvGame, srvLobbies, polls,
                 lastAutoReqAt, prevAutoReqAt>>
  /\ UNCHANGED <<idVars, fetchVars, marketVars, loopVars>>

SrvOnly ==
  /\ autoFired' = NoEval
  /\ UNCHANGED <<identityLoading, viewerId, activeTab, dualStatus, dualCreateBet, dualGuess,
                 dualBusy, dualAutoActionAtRef, tradeMsg, now, polls, dualOps,
                 lastAutoReqAt, prevAutoReqAt>>
  /\ UNCHANGED <<idVars, fetchVars, marketVars, loopVars>>

\* The session of the viewer moves on: a second player joins, all are ready,
\* the number is guessed, the finished session is dropped.
SrvGameMoves ==
  /\ \/ /\ srvGame.status = "lobby"
        /\ srvGame.player_count < 2
        /\ srvGame' = [srvGame EXCEPT !.player_count = 2]
     \/ /\ srvGame.status = "lobby"
        /\ srvGame.player_count >= 2
        /\ srvGame.viewer_ready
        /\ srvGame' = [srvGame EXCEPT !.status = "active"]
     \/ /\ srvGame.status = "active"
        /\ srvGame' = [srvGame EXCEPT !.status = "finished"]
     \/ /\ srvGame.status = "finished"
        /\ srvGame' = NoGame
  /\ UNCHANGED srvLobbies
  /\ SrvOnly

\* ... with a backend that keeps a finished session.
SrvGameForward ==
  /\ srvGame.status # "finished"
  /\ SrvGameMoves

(***************************************************************************)
(* Main polling loop: actions (App.jsx lines 298-364).                      *)
(***************************************************************************)

Earliest(S) == CHOOSE x \in S : \A y \in S : x <= y

armedTimers == { loops[k].nextAt : k \in { j \in 1..Len(loops) : loops[j].nextAt # NoTimer } }

\* What a returned load() call leaves in the history.
Summary(r, live) ==
  [inst |-> r.inst, at |-> r.at, issued |-> r.issued, failed |-> r.failed,
   written |-> r.written, setError |-> r.setError, mounted |-> live]

returned(i, r, live) ==
  /\ rounds' = RemoveAt(rounds, i)
  /\ settled' = KeepLast(Append(settled, Summary(r, live)), SettledKept)

viewVars == <<loading, error, stocks, stats, shopItems, statusData, statusError, dualError,
              lastUpdated, dualStatus>>

\* `if (!mounted) return` after an await, then `finally` with mounted false:
\* the call returns and nothing is written.
dropped(i, r) ==
  /\ returned(i, r, FALSE)
  /\ autoFired' = NoEval
  /\ UNCHANGED viewVars
  /\ UNCHANGED <<viewerId, activeTab, dualBusy, dualAutoActionAtRef, tradeMsg, polls,
                 dualOps, lastAutoReqAt, prevAutoReqAt>>

\* Time passes; a due interval timer fires before the clock moves on.
LoopTick ==
  /\ now < MaxLoopTime
  /\ \A t \in armedTimers : now < t
  /\ now' = Earliest({now + LoopTickMs, MaxLoopTime} \cup armedTimers)
  /\ autoFired' = NoEval
  /\ UNCHANGED <<identityLoading, viewerId, activeTab, dualStatus, dualCreateBet, dualGuess,
                 dualBusy, dualAutoActionAtRef, tradeMsg, srvGame, srvLobbies, polls,
                 dualOps, lastAutoReqAt, prevAutoReqAt>>
  /\ UNCHANGED <<idVars, fetchVars, marketVars, loopVars>>

\* setInterval(load, REFRESH_MS) fires (line 359): load() is called.
LoopTimerFire(k) ==
  /\ k \in 1..Len(loops)
  /\ loops[k].nextAt = now
  /\ Len(rounds) < MaxRounds
  /\ loops' = [loops EXCEPT ![k].nextAt = now + REFRESH_MS]
  /\ rounds' = Append(rounds, Round(k, now))
  /\ starts' = Append(starts, [inst |-> k, at |-> now])
  /\ autoFired' = NoEval
  /\ UNCHANGED <<loading, error, stocks, stats, shopItems, statusData, statusError,
                 dualError, lastUpdated, settled>>
  /\ UNCHANGED <<identityLoading, viewerId, activeTab, dualStatus, dualCreateBet, dualGuess,
                 dualBusy, dualAutoActionAtRef, tradeMsg, now, srvGame, srvLobbies, polls,
                 dualOps, lastAutoReqAt, prevAutoReqAt>>
  /\ UNCHANGED <<idVars, fetchVars, marketVars>>

\* Promise.all([stocks, dashboard-stats]) fulfils (lines 304-311); the shop
\* fetch is issued next (line 313).
RoundMarketOk(i) ==
  /\ i \in 1..Len(rounds)
  /\ rounds[i].phase = "market"
  /\ LET r == rounds[i]
         l == loops[r.inst]
     IN IF l.mounted
          THEN /\ stocks' = Stamp(r.at, l.vid)
               /\ stats' = Stamp(r.at, l.vid)
               /\ rounds' = [rounds EXCEPT ![i] =
                               [r EXCEPT !.phase = "shop", !.issued = @ \cup {"shop"},
                                         !.written = @ \cup MarketSubs]]
               /\ autoFired' = NoEval
               /\ UNCHANGED <<loading, error, shopItems, statusData, statusError, dualError,
                              lastUpdated, settled, dualStatus>>
               /\ UNCHANGED <<viewerId, activeTab, dualBusy, dualAutoActionAtRef, tradeMsg,
                              polls, dualOps, lastAutoReqAt, prevAutoReqAt>>
          ELSE dropped(i, r)
  /\ UNCHANGED <<loops, starts>>
  /\ UNCHANGED <<identityLoading, dualCreateBet, dualGuess, now, srvGame, srvLobbies>>
  /\ UNCHANGED <<idVars, fetchVars, marketVars>>

\* Promise.all([stocks, dashboard-stats]) rejects because the fetches in F
\* failed: the outer catch and finally run (lines 350-355).
RoundMarketFail(i, F) ==
  /\ i \in 1..Len(rounds)
  /\ rounds[i].phase = "market"
  /\ F \subseteq MarketSubs
  /\ F # {}
  /\ LET r == [rounds[i] EXCEPT !.failed = F]
         l == loops[r.inst]
     IN IF l.mounted
          THEN /\ error' = LoadFailed
               /\ loading' = FALSE
               /\ returned(i, [r EXCEPT !.setError = TRUE], TRUE)
               /\ autoFired' = NoEval
               /\ UNCHANGED <<stocks, stats, shopItems, statusData, statusError, dualError,
                              lastUpdated, dualStatus>>
               /\ UNCHANGED <<viewerId, activeTab, dualBusy, dualAutoActionAtRef, tradeMsg,
                              polls, dualOps, lastAutoReqAt, prevAutoReqAt>>
          ELSE dropped(i, r)
  /\ UNCHANGED <<loops, starts>>
  /\ UNCHANGED <<identityLoading, dualCreateBet, dualGuess, now, srvGame, srvLobbies>>
  /\ UNCHANGED <<idVars, fetchVars, marketVars>>

\* The tail of a round that got through (lines 348-349, 354).
roundEnd_KeepError(e) == e
roundEnd(e) == ""

\* The shop fetch settles (lines 312-321); with a viewer id the status and
\* duel-status fetches are issued (lines 322-326), without one the per-user
\* state is reset and the round ends (lines 342-349).
RoundShopDone(i, ok) ==
  /\ i \in 1..Len(rounds)
  /\ rounds[i].phase = "shop"
  /\ LET r == rounds[i]
         l == loops[r.inst]
         r2 == IF ok THEN [r EXCEPT !.written = @ \cup {"shop"}]
                     ELSE [r EXCEPT !.failed = @ \cup {"shop"}]
     IN IF ~l.mounted THEN dropped(i, r2)
        ELSE /\ shopItems' = IF ok THEN Stamp(r.at, l.vid) ELSE NoData
             /\ IF l.vid # ""
                  THEN /\ rounds' = [rounds EXCEPT ![i] =
                                       [r2 EXCEPT !.phase = "user",
                                                  !.issued = @ \cup UserSubs]]
                       /\ autoFired' = NoEval
                       /\ UNCHANGED <<loading, error, stocks, stats, statusData, statusError,
                                      dualError, lastUpdated, settled, dualStatus>>
                       /\ UNCHANGED <<viewerId, activeTab, dualBusy, dualAutoActionAtRef,
                                      tradeMsg, polls, dualOps, lastAutoReqAt, prevAutoReqAt>>
                  ELSE /\ statusData' = NoData
                       /\ statusError' = ""
                       /\ dualError' = ""
                       /\ lastUpdated' = now
                       /\ error' = roundEnd(error)
                       /\ loading' = FALSE
                       /\ returned(i, r2, TRUE)
                       /\ Commit(activeTab, viewerId, dualBusy, NullStatus, tradeMsg, polls,
                                 dualOps, FALSE, TRUE)
                       /\ UNCHANGED <<stocks, stats>>
  /\ UNCHANGED <<loops, starts>>
  /\ UNCHANGED <<identityLoading, dualCreateBet, dualGuess, now, srvGame, srvLobbies>>
  /\ UNCHANGED <<idVars, fetchVars, marketVars>>

\* Promise.allSettled([status, dual/status]) settles (lines 323-349).
RoundUserDone(i, statusOk, dualOk) ==
  /\ i \in 1..Len(rounds)
  /\ rounds[i].phase = "user"
  /\ LET r == rounds[i]
         l == loops[r.inst]
         bad == (IF statusOk THEN {} ELSE {"status"}) \cup (IF dualOk THEN {} ELSE {"dual"})
         r2 == [r EXCEPT !.failed = @ \cup bad, !.written = @ \cup (UserSubs \ bad)]
     IN IF ~l.mounted THEN dropped(i, [r EXCEPT !.failed = @ \cup bad])
        ELSE /\ statusData' = IF statusOk THEN Stamp(r.at, l.vid) ELSE NoData
             /\ statusError' = IF statusOk THEN "" ELSE LoadFailed
             /\ dualError' = IF dualOk THEN "" ELSE LoadFailed
             /\ lastUpdated' = now
             /\ error' = roundEnd(error)
             /\ loading' = FALSE
             /\ returned(i, r2, TRUE)
             /\ Commit(activeTab, viewerId, dualBusy,
                       IF dualOk THEN srvStatus ELSE NullStatus, tradeMsg, polls, dualOps,
                       FALSE, TRUE)
             /\ UNCHANGED <<stocks, stats, shopItems>>
  /\ UNCHANGED <<loops, starts>>
  /\ UNCHANGED <<identityLoading, dualCreateBet, dualGuess, now, srvGame, srvLobbies>>
  /\ UNCHANGED <<idVars, fetchVars, marketVars>>

(***************************************************************************)
(* detectViewerIdentity, one await per step (App.jsx lines 177-232).        *)
(***************************************************************************)

SdkOk == [kind |-> "ok", message |-> <<>>]

idFrame ==
  /\ autoFired' = NoEval
  /\ UNCHANGED <<identityLoading, viewerId, activeTab, dualStatus, dualCreateBet, dualGuess,
                 dualBusy, dualAutoActionAtRef, tradeMsg, now, srvGame, srvLobbies, polls,
                 dualOps, lastAutoReqAt, prevAutoReqAt, marketVars, loopVars>>
  /\ UNCHANGED <<idSearch, idWindow, idClientId, viewerName, viewerAvatar>>

\* The last call of the log rejected.
threwLast(log) == [log EXCEPT ![Len(log)].threw = TRUE]

\* An await inside the try block rejected: the catch block returns.
IdCaught(err) ==
  /\ idResult' = catchIdentity(err)
  /\ idPc' = "done"
  /\ sdkLog' = threwLast(sdkLog)

\* The function runs up to its first await (lines 178-187).
IdStart ==
  /\ idPc = "start"
  /\ LET r == earlyReturn(idWindow, idSearch, fHostname, idClientId) IN
       IF r # NoIdentity
         THEN idResult' = r /\ idPc' = "done" /\ sdkLog' = sdkLog
         ELSE /\ idResult' = idResult
              /\ idPc' = "import"
              /\ sdkLog' = Append(sdkLog, Called("import", <<>>, FALSE))
  /\ idFrame
  /\ UNCHANGED fetchVars

\* import("@discord/embedded-app-sdk") settles; new DiscordSDK, sdk.ready()
\* (lines 187-189).
IdImportDone(out) ==
  /\ idPc = "import"
  /\ IF out = SdkOk
       THEN /\ idPc' = "ready"
            /\ sdkLog' = Append(sdkLog, Called("ready", idClientId, FALSE))
            /\ idResult' = idResult
       ELSE IdCaught(out)
  /\ idFrame
  /\ UNCHANGED fetchVars

\* sdk.ready() settles; sdk.commands.authorize(authPayload) (lines 189-200).
\* The payload has no redirect_uri on the activity host.
IdReadyDone(out) ==
  /\ idPc = "ready"
  /\ IF out = SdkOk
       THEN /\ idPc' = "authorize"
            /\ sdkLog' = Append(sdkLog,
                 Called("authorize",
                        IF endsWithDiscordSays(fHostname) THEN <<>> ELSE <<"redirect_uri">>,
                        FALSE))
            /\ idResult' = idResult
       ELSE IdCaught(out)
  /\ idFrame
  /\ UNCHANGED fetchVars

\* authorize settles with auth?.code = code; with a code the token exchange
\* is requested (lines 200-206).
IdAuthorizeDone(out, code) ==
  /\ idPc = "authorize"
  /\ IF out # SdkOk
       THEN IdCaught(out) /\ UNCHANGED fetchVars
       ELSE IF trim(code) = <<>>
         THEN /\ idResult' = Identity(<<>>, <<>>, <<>>, <<"sdk-authorize-no-code">>)
              /\ idPc' = "done"
              /\ sdkLog' = gotLast(sdkLog, code)
              /\ UNCHANGED fetchVars
         ELSE /\ idPc' = "token"
              /\ sdkLog' = gotLast(sdkLog, code)
              /\ idResult' = idResult
              /\ fMethod' = "GET"
              /\ fUrls' = <<>>
              /\ fResps' = <<>>
              /\ fLastErr' = NoError
              /\ fResult' = Pending
              /\ UNCHANGED <<fHostname, fProtocol, fRawBase>>
  /\ idFrame

\* fetchJsonWithFallback(/api/activity/oauth/token) settles; with an access
\* token sdk.commands.authenticate is called (lines 206-209).
IdTokenDone ==
  /\ idPc = "token"
  /\ fResult.state \in {"returned", "thrown"}
  /\ IF fResult.state = "thrown"
       THEN /\ idResult' = catchIdentity(fetchErrorAsSdkError(fResult.err))
            /\ idPc' = "done"
            /\ sdkLog' = sdkLog
       ELSE LET accessToken == trim(accessTokenOf(fResult.value)) IN
              IF accessToken = <<>>
                THEN /\ idResult' = Identity(<<>>, <<>>, <<>>, <<"oauth-no-access-token">>)
                     /\ idPc' = "done"
                     /\ sdkLog' = sdkLog
                ELSE /\ idPc' = "authenticate"
                     /\ sdkLog' = Append(sdkLog, Called("authenticate", accessToken, FALSE))
                     /\ idResult' = idResult
  /\ idFrame
  /\ UNCHANGED fetchVars

\* sdk.commands.authenticate settles with me?.user = user (lines 209-224).
IdAuthenticateDone(out, user) ==
  /\ idPc = "authenticate"
  /\ IF out = SdkOk
       THEN /\ idResult' = authenticated(user)
            /\ idPc' = "done"
            /\ sdkLog' = sdkLog
       ELSE IdCaught(out)
  /\ idFrame
  /\ UNCHANGED fetchVars

(***************************************************************************)
(* Specifications.                                                          *)
(***************************************************************************)

\* Date.now() is an epoch time: the initial ref of 0 never throttles.
StartTime == AUTO_THROTTLE_MS

InitApp ==
  /\ identityLoading = TRUE
  /\ viewerId = ""
  /\ viewerName = <<>>
  /\ viewerAvatar = <<>>
  /\ activeTab = "companies"
  /\ dualStatus = NullStatus
  /\ dualCreateBet = "50"
  /\ dualGuess = ""
  /\ dualBusy = FALSE
  /\ dualAutoActionAtRef = 0
  /\ tradeMsg = <<"", "">>
  /\ now = StartTime
  /\ srvGame = NoGame
  /\ srvLobbies \in LobbyLists
  /\ polls = <<>>
  /\ dualOps = <<>>
  /\ lastAutoReqAt = -1
  /\ prevAutoReqAt = -1
  /\ autoFired = NoEval
  /\ tradeBusyBySymbol = NoneBusy(Symbols)
  /\ shopBusyByName = NoneBusy(ShopNames)
  /\ tradeOps = {}
  /\ shopOps = {}
  /\ hist = InitHist
  /\ loading = TRUE
  /\ error = ""
  /\ stocks = NoData
  /\ stats = NoData
  /\ shopItems = NoData
  /\ statusData = NoData
  /\ statusError = ""
  /\ dualError = ""
  /\ lastUpdated = 0
  /\ LET e == effectBody(<<>>, <<>>, "", StartTime) IN
       /\ loops = e.loops
       /\ rounds = e.rounds
       /\ starts = e.started
  /\ settled = <<>>

\* No identity resolution is looked at: the call has not taken a step.
InitIdVars ==
  /\ idSearch = Search(<<>>, <<>>, <<>>, <<>>, <<>>, <<>>)
  /\ idWindow = TRUE
  /\ idClientId = <<"cid">>
  /\ idPc = "start"
  /\ idResult = NoIdentity
  /\ sdkLog = <<>>

vars == <<fetchVars, appVars>>

\* The page as loaded on one host; the fetch layer is folded into the
\* outcome of each request.
Init ==
  /\ InitApp
  /\ InitIdVars
  /\ fHostname = <<"localhost">>
  /\ fProtocol = "https:"
  /\ fRawBase = <<>>
  /\ fMethod = "GET"
  /\ fUrls = <<>>
  /\ fResps = <<>>
  /\ fLastErr = NoError
  /\ fResult = Idle

Next ==
  \/ \E id \in {"", "7"} : DetectDone(id)
  \/ \E t \in Tabs : SetActiveTab(t)
  \/ \E v \in BetInputs : SetBet(v)
  \/ \E v \in GuessInputs : SetGuess(v)
  \/ ClickReady
  \/ ClickGuess
  \/ PollTimer
  \/ LoadRound
  \/ \E i \in 1..MaxInFlight : PollServe(i)
  \/ \E i \in 1..MaxInFlight : PollDeliver(i)
  \/ \E i \in 1..MaxInFlight : PollFail(i)
  \/ \E i \in 1..MaxOps, h \in {"", "higher"} : SrvAccept(i, h)
  \/ \E i \in 1..MaxOps : SrvReject(i)
  \/ \E i \in 1..MaxOps : OpReplyOk(i)
  \/ \E i \in 1..MaxOps : OpReplyRejected(i)
  \/ \E i \in 1..MaxOps : OpTransportError(i)
  \/ \E i \in 1..MaxOps : OpRefreshServe(i)
  \/ \E i \in 1..MaxOps : OpRefreshDone(i)
  \/ \E i \in 1..MaxOps : OpRefreshFail(i)
  \/ SrvGameMoves
  \/ Tick

Spec == Init /\ [][Next]_vars

\* The three families of mutating handlers side by side: the duel client on
\* its own polling loop, with the clock and the duel inputs left alone, and
\* the trade and shop handlers.
AllTradeOps == {TradeOp(a, sy) : a \in {"buy", "sell"}, sy \in Symbols}
AllShopOps ==
  {[ShopOp(k, n) EXCEPT !.phase = ph] :
     k \in {"buy", "sell"}, n \in ShopNames, ph \in {"post", "reload"}}

NextMarket ==
  \/ \E id \in {"", "7"} : DetectDone(id)
  \/ \E t \in MarketTabs : SetActiveTab(t)
  \/ ClickReady
  \/ ClickGuess
  \/ PollTimer
  \/ \E i \in 1..MaxInFlight : PollServe(i)
  \/ \E i \in 1..MaxInFlight : PollDeliver(i)
  \/ \E i \in 1..MaxInFlight : PollFail(i)
  \/ \E i \in 1..MaxOps, h \in {"", "higher"} : SrvAccept(i, h)
  \/ \E i \in 1..MaxOps : SrvReject(i)
  \/ \E i \in 1..MaxOps : OpReplyOk(i)
  \/ \E i \in 1..MaxOps : OpReplyRejected(i)
  \/ \E i \in 1..MaxOps : OpTransportError(i)
  \/ \E i \in 1..MaxOps : OpRefreshServe(i)
  \/ \E i \in 1..MaxOps : OpRefreshDone(i)
  \/ \E i \in 1..MaxOps : OpRefreshFail(i)
  \/ SrvGameMoves
  \/ \E a \in {"buy", "sell"}, sy \in OneSymbol, owned \in {0, 1} : ClickTrade(a, sy, owned)
  \/ \E op \in AllTradeOps : TradeReplyOk(op)
  \/ \E op \in AllTradeOps : TradeReplyRejected(op)
  \/ \E op \in AllTradeOps : TradeTransportError(op)
  \/ \E n \in OneShopName, inStock \in BOOLEAN : ClickShopBuy(n, inStock)
  \/ \E n \in OneShopName : ClickShopSell(n)
  \/ \E op \in AllShopOps : ShopReplyOk(op)
  \/ \E op \in AllShopOps : ShopReplyRejected(op)
  \/ \E op \in AllShopOps : ShopTransportError(op)
  \/ \E op \in AllShopOps : ShopReloadDone(op)
  \/ \E op \in AllShopOps : ShopReloadFail(op)

\* The backend lists joinable lobbies, so the auto-matchmaking effect has
\* something to join.
InitMarket ==
  /\ Init
  /\ srvLobbies = <<OwnLobby, ActiveRoom, EmptyRoom, Joinable1, Joinable2>>

SpecMarket == InitMarket /\ [][NextMarket]_vars

\* The duel polling effect on its own: every request in `polls` was issued by
\* run() of that effect (the main loop and the clock are left out).
NextDuelPoll ==
  \/ \E id \in {"", "7"} : DetectDone(id)
  \/ \E t \in Tabs : SetActiveTab(t)
  \/ ClickReady
  \/ ClickGuess
  \/ PollTimer
  \/ \E i \in 1..MaxInFlight : PollServe(i)
  \/ \E i \in 1..MaxInFlight : PollDeliver(i)
  \/ \E i \in 1..MaxInFlight : PollFail(i)
  \/ \E i \in 1..MaxOps, h \in {"", "higher"} : SrvAccept(i, h)
  \/ \E i \in 1..MaxOps : SrvReject(i)
  \/ \E i \in 1..MaxOps : OpReplyOk(i)
  \/ \E i \in 1..MaxOps : OpReplyRejected(i)
  \/ \E i \in 1..MaxOps : OpTransportError(i)
  \/ \E i \in 1..MaxOps : OpRefreshServe(i)
  \/ \E i \in 1..MaxOps : OpRefreshDone(i)
  \/ \E i \in 1..MaxOps : OpRefreshFail(i)
  \/ SrvGameMoves

SpecDuelPoll == Init /\ [][NextDuelPoll]_vars

\* The four submitDual* handlers called directly, with every string the bet
\* and guess state can hold and every room code a caller can pass; the clock
\* and the main loop are left out.
NextHandlers ==
  \/ \E id \in {"", "7"} : DetectDone(id)
  \/ SetActiveTab("dual")
  \/ \E v \in BetStrings : SetBet(v)
  \/ \E v \in GuessStrings : SetGuess(v)
  \/ CallCreate
  \/ \E c \in JoinCodes : CallJoin(c)
  \/ CallReady
  \/ CallGuess
  \/ \E i \in 1..MaxInFlight : PollServe(i)
  \/ \E i \in 1..MaxInFlight : PollDeliver(i)
  \/ \E i \in 1..MaxOps, h \in {"", "higher"} : SrvAccept(i, h)
  \/ \E i \in 1..MaxOps : SrvReject(i)
  \/ \E i \in 1..MaxOps : OpReplyOk(i)
  \/ \E i \in 1..MaxOps : OpReplyRejected(i)
  \/ \E i \in 1..MaxOps : OpTransportError(i)
  \/ \E i \in 1..MaxOps : OpRefreshServe(i)
  \/ \E i \in 1..MaxOps : OpRefreshDone(i)
  \/ \E i \in 1..MaxOps : OpRefreshFail(i)
  \/ SrvGameMoves

\* A backend that answers every create and join with ok:false, and a
\* viewer who opens the DUAL tab and then touches nothing.
NextRejecting ==
  \/ \E id \in {"", "7"} : DetectDone(id)
  \/ SetActiveTab("dual")
  \/ PollTimer
  \/ \E i \in 1..MaxInFlight : PollServe(i)
  \/ \E i \in 1..MaxInFlight : PollDeliver(i)
  \/ \E i \in 1..MaxInFlight : PollFail(i)
  \/ \E i \in 1..MaxOps : SrvReject(i)
  \/ \E i \in 1..MaxOps : OpReplyRejected(i)
  \/ Tick

SpecRejecting == Init /\ [][NextRejecting]_vars

\* The three writers of the cached duel status (main loop, duel polling
\* loop, refresh after a mutating call) against a backend whose session only
\* moves forward; the clock and the duel inputs are left alone.
NextForward ==
  \/ \E id \in {"", "7"} : DetectDone(id)
  \/ \E t \in Tabs : SetActiveTab(t)
  \/ ClickReady
  \/ ClickGuess
  \/ PollTimer
  \/ LoadRound
  \/ \E i \in 1..MaxInFlight : PollServe(i)
  \/ \E i \in 1..MaxInFlight : PollDeliver(i)
  \/ \E i \in 1..MaxInFlight : PollFail(i)
  \/ \E i \in 1..MaxOps, h \in {"", "higher"} : SrvAccept(i, h)
  \/ \E i \in 1..MaxOps : SrvReject(i)
  \/ \E i \in 1..MaxOps : OpReplyOk(i)
  \/ \E i \in 1..MaxOps : OpReplyRejected(i)
  \/ \E i \in 1..MaxOps : OpTransportError(i)
  \/ \E i \in 1..MaxOps : OpRefreshServe(i)
  \/ \E i \in 1..MaxOps : OpRefreshDone(i)
  \/ \E i \in 1..MaxOps : OpRefreshFail(i)
  \/ SrvGameForward

SpecForward == Init /\ [][NextForward]_vars

\* Every company row and shop item side by side with the duel calls of a
\* lobby: auto join, then READY; a call is answered ok or lost.
NextBusy ==
  \/ DetectDone("7")
  \/ \E t \in MarketTabs : SetActiveTab(t)
  \/ \E i \in 1..MaxInFlight : PollServe(i)
  \/ \E i \in 1..MaxInFlight : PollDeliver(i)
  \/ \E i \in 1..MaxOps : SrvAccept(i, "")
  \/ \E i \in 1..MaxOps : OpReplyOk(i)
  \/ \E i \in 1..MaxOps : OpTransportError(i)
  \/ \E i \in 1..MaxOps : OpRefreshServe(i)
  \/ \E i \in 1..MaxOps : OpRefreshDone(i)
  \/ \E sy \in Symbols : ClickTrade("buy", sy, 1)
  \/ \E op \in AllTradeOps : TradeReplyOk(op)
  \/ \E op \in AllTradeOps : TradeTransportError(op)
  \/ \E n \in ShopNames : ClickShopBuy(n, TRUE)
  \/ \E n \in ShopNames : ClickShopSell(n)
  \/ \E op \in AllShopOps : ShopReplyOk(op)
  \/ \E op \in AllShopOps : ShopTransportError(op)
  \/ \E op \in AllShopOps : ShopReloadDone(op)

SpecBusy == InitMarket /\ [][NextBusy]_vars

\* The viewer opens the DUAL tab and stays on it without touching a control;
\* every duel-status GET and every POST is answered.  What the code's
\* scheduling gives is taken as weak fairness: setInterval keeps firing
\* while the polling effect is mounted, an answered request resumes its
\* awaiting call, and Date.now() advances.  The backend's answers and the
\* opponent's moves are owed to no one.
NextLive ==
  \/ DetectDone("7")
  \/ SetActiveTab("dual")
  \/ PollTimer
  \/ \E i \in 1..MaxInFlight : PollServe(i)
  \/ \E i \in 1..MaxInFlight : PollDeliver(i)
  \/ \E i \in 1..MaxOps : SrvAccept(i, "")
  \/ \E i \in 1..MaxOps : SrvReject(i)
  \/ \E i \in 1..MaxOps : OpReplyOk(i)
  \/ \E i \in 1..MaxOps : OpReplyRejected(i)
  \/ \E i \in 1..MaxOps : OpRefreshServe(i)
  \/ \E i \in 1..MaxOps : OpRefreshDone(i)
  \/ SrvGameMoves
  \/ Tick

FairLive ==
  /\ WF_vars(PollTimer)
  /\ WF_vars(\E i \in 1..MaxInFlight : PollServe(i))
  /\ WF_vars(\E i \in 1..MaxInFlight : PollDeliver(i))
  /\ WF_vars(\E i \in 1..MaxOps : SrvAccept(i, "") \/ SrvReject(i))
  /\ WF_vars(\E i \in 1..MaxOps : OpReplyOk(i))
  /\ WF_vars(\E i \in 1..MaxOps : OpReplyRejected(i))
  /\ WF_vars(\E i \in 1..MaxOps : OpRefreshServe(i))
  /\ WF_vars(\E i \in 1..MaxOps : OpRefreshDone(i))
  /\ WF_vars(Tick)

SpecLive == Init /\ [][NextLive]_vars /\ FairLive

\* The History tab: the menu button, Prev and Next, leaving for the
\* Companies tab, and the responses of the history GETs in any order.
NextHistory ==
  \/ \E id \in {"", "7"} : DetectDone(id)
  \/ OpenHistory
  \/ SetActiveTab("companies")
  \/ \E d \in {-1, 1} : HistoryPage(d)
  \/ \E i \in 1..MaxHistoryReqs, total \in HistoryTotals : HistoryDeliver(i, total)
  \/ \E i \in 1..MaxHistoryReqs : HistoryFail(i)

SpecHistory == Init /\ [][NextHistory]_vars

InitHandlers ==
  /\ Init
  /\ srvLobbies = <<OwnLobby, ActiveRoom, EmptyRoom>>

SpecHandlers == InitHandlers /\ [][NextHandlers]_vars

\* The main polling loop on its own: the page stays on the companies tab, so
\* the duel effects stay idle, and the backend's duel state does not move.
InitLoop ==
  /\ Init
  /\ srvLobbies = <<OwnLobby, ActiveRoom, EmptyRoom>>

NextLoop ==
  \/ \E id \in {"", "7"} : DetectDone(id)
  \/ LoopTick
  \/ \E k \in 1..2 : LoopTimerFire(k)
  \/ \E i \in 1..MaxRounds : RoundMarketOk(i)
  \/ \E i \in 1..MaxRounds, F \in SUBSET MarketSubs : RoundMarketFail(i, F)
  \/ \E i \in 1..MaxRounds, ok \in BOOLEAN : RoundShopDone(i, ok)
  \/ \E i \in 1..MaxRounds, statusOk \in BOOLEAN, dualOk \in BOOLEAN :
        RoundUserDone(i, statusOk, dualOk)

SpecLoop == InitLoop /\ [][NextLoop]_vars

\* One call of the fetch layer, on every host configuration.
InitFetch ==
  /\ InitFetchVars
  /\ InitApp
  /\ InitIdVars
  /\ srvLobbies = <<OwnLobby, ActiveRoom, EmptyRoom>>

SpecFetch == InitFetch /\ [][NextFetch]_vars

\* One call of detectViewerIdentity, for every launch URL, host and build
\* configuration; its token exchange runs through the fetch layer.
InitIdentity ==
  /\ InitFetchVars
  /\ InitApp
  /\ srvLobbies = <<OwnLobby, ActiveRoom, EmptyRoom>>
  /\ idSearch \in Searches
  /\ idWindow \in BOOLEAN
  /\ idClientId \in ClientIds
  /\ idPc = "start"
  /\ idResult = NoIdentity
  /\ sdkLog = <<>>

NextIdentity ==
  \/ IdStart
  \/ \E out \in {SdkOk} \cup SdkErrors : IdImportDone(out)
  \/ \E out \in {SdkOk} \cup SdkErrors : IdReadyDone(out)
  \/ \E out \in {SdkOk} \cup SdkErrors, code \in AuthCodes : IdAuthorizeDone(out, code)
  \/ \E res \in Responses : GetAttempt(res)
  \/ IdTokenDone
  \/ \E out \in {SdkOk} \cup SdkErrors, user \in SdkUsers : IdAuthenticateDone(out, user)
  \/ IdSettle

SpecIdentity == InitIdentity /\ [][NextIdentity]_vars

(***************************************************************************)
(* Claims about the DUAL client, checked under Spec.                        *)
(***************************************************************************)

\* C1: two auto-matchmaking actions that send a request (auto join or auto
\* create) are never less than 2500 ms apart, whatever poll results, busy and
\* tab changes and clock advances come between them.
C1_AutoThrottle ==
  prevAutoReqAt >= 0 => lastAutoReqAt - prevAutoReqAt >= 2500

\* Two auto requests were sent in one run.
C1_Witness == prevAutoReqAt >= 0 /\ lastAutoReqAt = MaxTime

\* C2: the matchmaking effect sends an auto join or auto create only from a
\* render whose dualBusy is false and whose cached duel status is loaded and
\* has no current_game, and the request it sends is then the only duel
\* mutating call in flight.
C2_AutoOnlyWhenIdle ==
  autoFired.send =>
    /\ ~autoFired.busy
    /\ dualStatus.loaded
    /\ dualStatus.current_game = NoGame
    /\ Len(dualOps) = 1
    /\ dualOps[1].auto
    /\ dualOps[1].phase = "post"

\* An auto request sent in the step in which an earlier duel call returned.
C2_Witness == autoFired.send /\ autoFired.kind = "create" /\ prevAutoReqAt >= 0

\* C3 (as claimed): once the backend has the viewer in a session, the client
\* sends no further auto create or auto join while the viewer is in it.
C3_NoDuplicateAuto == autoFired.send => srvGame = NoGame

\* C4: when the effect fires, it joins the first listing of open_lobbies with
\* status lobby, a host other than the viewer and at least one player, and
\* sends no create; it creates, with the configured bet, only when no such
\* listing exists.
C4_JoinFirstElseCreate ==
  autoFired.fired =>
    LET L == dualStatus.open_lobbies
        fits(i) == /\ L[i].status = "lobby"
                   /\ L[i].host_user_id # viewerId
                   /\ L[i].player_count >= 1
        sent == IF autoFired.send THEN dualOps[Len(dualOps)] ELSE NoOp
    IN  IF \E i \in 1..Len(L) : fits(i)
        THEN /\ autoFired.send
             /\ sent.kind = "join"
             /\ \E i \in 1..Len(L) :
                  /\ fits(i)
                  /\ \A j \in 1..(i - 1) : ~fits(j)
                  /\ sent.code = trimUpper(L[i].code)
        ELSE /\ sent.kind \in {"create", "none"}
             /\ autoFired.send <=> (Number(dualCreateBet).finite /\ Number(dualCreateBet).val > 0)
             /\ autoFired.send => sent.bet = Number(dualCreateBet).val

\* The effect joined a listing that is not the first of the list.
C4_Witness ==
  /\ autoFired.send
  /\ autoFired.kind = "join"
  /\ autoFired.lobby > 1
  /\ dualOps[Len(dualOps)].code = "AB12"

\* C5: at most one duel mutating call is in flight, dualBusy is true exactly
\* while one is, and while it is true every duel control is disabled.
C5_SingleDuelRequest ==
  /\ Len(dualOps) <= 1
  /\ dualBusy <=> Len(dualOps) = 1
  /\ dualBusy => /\ betInputDisabled
                 /\ readyDisabled
                 /\ guessInputDisabled
                 /\ submitGuessDisabled

\* Busy while READY would otherwise be clickable.
C5_Witness ==
  /\ dualBusy
  /\ lobbyControlsShown
  /\ dualStatus.current_game.player_count >= 2
  /\ ~dualStatus.current_game.viewer_ready
  /\ Number(dualCreateBet).val > 0

(***************************************************************************)
(* C6: a busy flag is set only while a call that owns it is running: the    *)
(* finally block of every mutating handler (duel create / join / ready /    *)
(* guess, trade buy / sell, shop buy / sell) clears the flag when the call  *)
(* leaves, whether the server answered ok, answered ok:false or every       *)
(* origin failed.  Checked under SpecMarket.                                *)
(***************************************************************************)
C6_BusyFlagsCleared ==
  /\ dualBusy => Len(dualOps) >= 1
  /\ \A sy \in Symbols :
       tradeBusyBySymbol[sy] => \E op \in tradeOps : op.symbol = sy
  /\ \A n \in ShopNames :
       shopBusyByName[n] => \E op \in shopOps : op.name = n

\* A duel call was accepted earlier (the viewer is in a session), the shop
\* purchase that ran last lost its request or its reload, and nothing is in
\* flight: every flag is clear.
C6_Witness ==
  /\ tradeMsg = <<"Shop buy failed for", "Potion", "transport-error">>
  /\ srvGame # NoGame
  /\ dualStatus.loaded /\ dualStatus.current_game # NoGame
  /\ dualOps = <<>> /\ tradeOps = {} /\ shopOps = {}
  /\ ~dualBusy
  /\ \A sy \in Symbols : ~tradeBusyBySymbol[sy]
  /\ \A n \in ShopNames : ~shopBusyByName[n]

(***************************************************************************)
(* C7: the origins are requested strictly in list order and the first       *)
(* origin that returns a valid JSON success ends the call: a valid success  *)
(* is only ever the latest response of a call, the call has then returned   *)
(* that response's body, every earlier response was a failure, and so a     *)
(* call that only the last of N origins answers returns after N attempts.   *)
(***************************************************************************)
C7_FirstSuccessWins ==
  LET valid(r) == r.net /\ r.ok /\ includesJson(r.ctype) /\ r.json
      n == Len(fResps)
  IN  /\ Len(fUrls) = n
      /\ n <= Len(fBases)
      /\ \A i \in 1..n : fUrls[i] = fBases[i]
      /\ \A i \in 1..n :
           valid(fResps[i]) => i = n /\ fResult = Returned(fResps[i].payload)
      /\ fResult.state = "returned" =>
           /\ n >= 1
           /\ valid(fResps[n])
           /\ fResult.value = fResps[n].payload
      /\ fResult.state = "idle" => n = 0

\* Three candidate origins, the first two failed and the third answered a
\* POST with JSON.
C7_Witness ==
  /\ fMethod = "POST"
  /\ Len(fBases) = 3
  /\ Len(fUrls) = 3
  /\ fResult.state = "returned"
  /\ fResult.value = "p2"
  /\ fResps[1].net /\ ~fResps[1].ok
  /\ ~fResps[2].net

(***************************************************************************)
(* C8: when every origin has failed the call fails, and on a host that does *)
(* not end in .discordsays.com the error it throws is the very error of     *)
(* the last attempt (same object, same content), for GET and POST.          *)
(***************************************************************************)
C8_LastErrorUnmodified ==
  LET valid(r) == r.net /\ r.ok /\ includesJson(r.ctype) /\ r.json
      n == Len(fBases)
      allFailed == Len(fResps) = n /\ \A i \in 1..n : ~valid(fResps[i])
      last == fResps[n]
      e == fResult.err
  IN  /\ allFailed => fResult.state = "thrown"
      /\ fResult.state = "thrown" => allFailed
      /\ (fResult.state = "thrown" /\ ~endsWithDiscordSays(fHostname)) =>
           /\ e.at = n
           /\ e = fLastErr
           /\ ~last.net => e.kind = "fetch" /\ e.msg = last.msg
           /\ (last.net /\ ~last.ok) =>
                /\ e.kind = "http"
                /\ e.status = last.status
                /\ e.body = Min(last.bodyLen, 180)
           /\ (last.net /\ last.ok /\ ~includesJson(last.ctype)) => e.kind = "not-json"
           /\ (last.net /\ last.ok /\ includesJson(last.ctype)) => e.kind = "json-parse"

\* Three origins failed in three different ways on a host outside
\* .discordsays.com; the POST threw the 502 of the third one.
C8_Witness ==
  /\ fMethod = "POST"
  /\ ~endsWithDiscordSays(fHostname)
  /\ Len(fBases) = 3
  /\ fResult.state = "thrown"
  /\ ~fResps[1].net
  /\ fResps[2].net /\ fResps[2].status = 404
  /\ fResps[3].net /\ fResps[3].status = 502
  /\ fResult.err.status = 502

(***************************************************************************)
(* C9: on a host ending in .discordsays.com a call in which every origin    *)
(* failed throws the diagnostic that names the /api proxy mapping, for a    *)
(* POST as for a GET.                                                       *)
(***************************************************************************)
C9_ProxyHintOnRestrictedHost ==
  (fResult.state = "thrown" /\ endsWithDiscordSays(fHostname)) =>
    fResult.err.kind = "proxy-hint"

(***************************************************************************)
(* C10: an attempt succeeds only on a response with an HTTP success status  *)
(* and a content type containing application/json; an attempt that met a    *)
(* transport error, a non-2xx status or another content type is a failure:  *)
(* its error becomes the last error and the call goes on with the next      *)
(* origin (or, after the last origin, throws), for GET and POST.            *)
(***************************************************************************)
C10_SuccessNeedsOkAndJson ==
  LET n == Len(fResps)
      bad(r) == ~r.net \/ ~r.ok \/ ~includesJson(r.ctype)
      kindOf(r) == IF ~r.net THEN "fetch" ELSE IF ~r.ok THEN "http" ELSE "not-json"
  IN  /\ fResult.state = "returned" =>
           /\ n >= 1
           /\ fResps[n].net /\ fResps[n].ok
           /\ \E i \in 1..Len(fResps[n].ctype) :
                fResps[n].ctype[i] \in {"application/json", "Application/JSON"}
      /\ \A i \in 1..n : bad(fResps[i]) =>
           /\ i < Len(fBases) => (n > i \/ fResult.state = "pending")
           /\ i = Len(fBases) => fResult.state = "thrown"
           /\ i = n => /\ fLastErr # NoError
                       /\ fLastErr.at = i
                       /\ fLastErr.kind = kindOf(fResps[i])

\* A GET whose first origin answered 200 with text/html went on to the
\* second origin, which answered JSON.
C10_Witness ==
  /\ Len(fResps) = 2
  /\ fResps[1].net /\ fResps[1].ok /\ fResps[1].ctype = CT_HTML
  /\ fResps[2].net /\ fResps[2].ok /\ fResps[2].ctype = CT_JSON_UP /\ fResps[2].json
  /\ fResult.state = "returned"
  /\ fMethod = "GET"

(***************************************************************************)
(* Claims about the candidate origin list, checked under SpecFetch, whose   *)
(* initial states range over the host names, protocols and VITE_API_BASE    *)
(* values and whose calls walk the list.                                    *)
(***************************************************************************)

(***************************************************************************)
(* C11: on every host name ending in .discordsays.com, whatever else it     *)
(* contains and whatever VITE_API_BASE is, the candidate list is [""].      *)
(***************************************************************************)
C11_RestrictedHostRelativeOnly ==
  endsWithDiscordSays(fHostname) => fBases = << <<>> >>

(***************************************************************************)
(* C12: the candidate list is never empty and always contains "", and with  *)
(* a fallback origin configured on a host without the -activity. infix the  *)
(* list is the fallback followed by "".                                     *)
(***************************************************************************)
C12_AlwaysRelativeCandidate ==
  /\ Len(fBases) >= 1
  /\ \E i \in 1..Len(fBases) : fBases[i] = <<>>
  /\ (normalizeBase(fRawBase) # <<>> /\ ~includesActivity(fHostname)) =>
       fBases = <<normalizeBase(fRawBase), <<>> >>

C15_NoWriteAfterTeardown ==
  [][\A i \in 1..MaxInFlight :
       PollDeliver(i) => (activeTab = "dual" /\ viewerId # "" /\ ~dualBusy)]_vars

(***************************************************************************)
(* C14: within one main poll round the failure of one sub-fetch (market     *)
(* snapshot, dashboard stats, shop, account status, duel status) stays      *)
(* local: every other sub-fetch of the round is still issued, the           *)
(* successful results are written, and the view-wide error is not set.      *)
(* Stated over the rounds that returned while their loop was still mounted. *)
(***************************************************************************)
C14_SubFetchFailureIsolated ==
  \A j \in 1..Len(settled) :
    LET r == settled[j]
        all == subFetches(loops[r.inst].vid)
    IN (r.mounted /\ Cardinality(r.failed) = 1) =>
         /\ r.issued = all
         /\ r.written = all \ r.failed
         /\ ~r.setError

(***************************************************************************)
(* C16: every instance of the main polling loop runs one round at once when *)
(* it starts and then one round every 5000 ms: its rounds started exactly   *)
(* at start, start + 5000, start + 10000, ..., none is skipped while it is  *)
(* running (the clock never passes a due round), and once it is cancelled   *)
(* its timer is cleared and none of its rounds started after the cancel.    *)
(***************************************************************************)
startsOf(k) == SelectSeq(starts, LAMBDA s : s.inst = k)

C16_RoundEveryInterval ==
  \A k \in 1..Len(loops) :
    LET l == loops[k]
        mine == startsOf(k)
    IN /\ Len(mine) >= 1
       /\ \A j \in 1..Len(mine) : mine[j].at = l.startedAt + (j - 1) * REFRESH_MS
       /\ l.mounted => (l.nextAt = l.startedAt + Len(mine) * REFRESH_MS /\ now <= l.nextAt)
       /\ ~l.mounted =>
            /\ l.nextAt = NoTimer
            /\ k < Len(loops)
            /\ \A j \in 1..Len(mine) : mine[j].at <= loops[k + 1].startedAt

\* A loop that ran two rounds and was cancelled, and its successor that has
\* run two rounds as well.
C16_Witness ==
  /\ Len(loops) = 2
  /\ ~loops[1].mounted
  /\ Len(startsOf(1)) >= 2
  /\ Len(startsOf(2)) >= 2

(***************************************************************************)
(* C17: when the viewer id of the main polling loop changes, the running    *)
(* timer is cancelled and a new loop starts with an immediate round for the *)
(* new id: after every step only the newest loop is mounted and armed, it   *)
(* runs with the current viewer id and its first round started when it did; *)
(* the account status in view state was fetched for the current viewer id,  *)
(* a duel status is in view state only with a viewer id, and a round of a   *)
(* cancelled loop that returns writes nothing to view state.                *)
(***************************************************************************)
loopRestarted ==
  /\ \A k \in 1..Len(loops) :
       IF k = Len(loops)
         THEN loops[k].mounted /\ loops[k].nextAt # NoTimer /\ loops[k].vid = viewerId
         ELSE ~loops[k].mounted /\ loops[k].nextAt = NoTimer /\ loops[k].vid # viewerId
  /\ Len(startsOf(Len(loops))) >= 1
  /\ startsOf(Len(loops))[1].at = loops[Len(loops)].startedAt
  /\ statusData # NoData => statusData.vid = viewerId
  /\ dualStatus # NullStatus => viewerId # ""

staleRoundReturns(i) ==
  /\ i \in 1..Len(rounds)
  /\ ~loops[rounds[i].inst].mounted
  /\ \/ RoundMarketOk(i)
     \/ \E F \in SUBSET MarketSubs : RoundMarketFail(i, F)
     \/ \E ok \in BOOLEAN : RoundShopDone(i, ok)
     \/ \E statusOk \in BOOLEAN, dualOk \in BOOLEAN : RoundUserDone(i, statusOk, dualOk)

C17_ViewerChangeRestartsLoop ==
  [][/\ loopRestarted'
     /\ \A i \in 1..MaxRounds : staleRoundReturns(i) => UNCHANGED viewVars]_vars

\* The viewer id resolved to 7 while a round of the first loop was in flight:
\* that round returned without a write, and the account status in view state
\* is the one a round of the second loop fetched for viewer 7.
C17_Witness ==
  /\ viewerId = "7"
  /\ Len(loops) = 2
  /\ \E j \in 1..Len(settled) :
       settled[j].inst = 1 /\ ~settled[j].mounted /\ settled[j].at = loops[2].startedAt
  /\ statusData = Stamp(loops[2].startedAt, "7")
  /\ dualStatus # NullStatus

(***************************************************************************)
(* C18: a failed round of the main loop does not stop it, and the next      *)
(* round that gets through clears the view-wide error and writes what it    *)
(* fetched. As long as no later round of the running loop has returned: a   *)
(* round that got through has written the market snapshot and the stats it  *)
(* fetched and has left error empty, loading false and lastUpdated no older *)
(* than its start; a round that failed has left the error message; and in   *)
(* every state the running loop is mounted with its timer armed for a time  *)
(* that has not passed.                                                     *)
(***************************************************************************)
C18_RecoversOnNextGoodRound ==
  /\ LET l == loops[Len(loops)] IN
       l.mounted /\ l.nextAt # NoTimer /\ now <= l.nextAt
  /\ Len(settled) >= 1 =>
       LET last == settled[Len(settled)] IN
         last.mounted =>
           IF last.setError
             THEN error = LoadFailed /\ ~loading
             ELSE /\ error = ""
                  /\ ~loading
                  /\ MarketSubs \subseteq last.written
                  /\ lastUpdated >= last.at

\* A round failed and set the error; the round the timer started 5000 ms
\* later got through, and the error is cleared.
C18_Witness ==
  /\ Len(settled) = 2
  /\ settled[1].mounted /\ settled[1].setError
  /\ settled[2].mounted /\ ~settled[2].setError
  /\ settled[2].inst = settled[1].inst
  /\ settled[2].at = settled[1].at + REFRESH_MS
  /\ error = ""
  /\ stocks.at = settled[2].at

(***************************************************************************)
(* C19: detectViewerIdentity never rejects, and once the SDK handshake was  *)
(* started every way it can fail resolves to an identity with an empty name *)
(* and a non-empty reason that names the branch: sdk-init-failed (with the  *)
(* error's detail, if it has one) when the SDK import, ready, authorize or  *)
(* authenticate rejected or the token exchange failed on every origin,      *)
(* sdk-authorize-no-code for a blank code, oauth-no-access-token for a      *)
(* token body without an access token, sdk-auth-user-empty for a user       *)
(* without a name.                                                          *)
(***************************************************************************)
C19_DetectNeverRaises ==
  /\ idResult.settled # "rejected"
  /\ (idPc = "done" /\ sdkLog # <<>>) =>
       LET last == sdkLog[Len(sdkLog)]
           reason == idResult.reason
       IN /\ idResult.settled = "resolved"
          /\ reason # <<>>
          /\ reason # <<"sdk-authenticated">> =>
               idResult.name = <<>> /\ idResult.id = <<>> /\ idResult.avatar_url = <<>>
          /\ IF last.threw \/ fResult.state = "thrown"
               THEN reason[1] = "sdk-init-failed"
             ELSE IF last.call = "authorize" /\ fResult.state = "idle"
               THEN reason = <<"sdk-authorize-no-code">>
             ELSE IF last.call = "authorize"
               THEN fResult.state = "returned" /\ reason = <<"oauth-no-access-token">>
             ELSE /\ last.call = "authenticate"
                  /\ IF idResult.name = <<>> THEN reason = <<"sdk-auth-user-empty">>
                     ELSE reason = <<"sdk-authenticated">>

\* The token exchange failed on both origins of an activity host whose name
\* has the -activity. infix; the call resolved with sdk-init-failed and the
\* fetch layer's message.
C19_Witness ==
  /\ idPc = "done"
  /\ Len(sdkLog) = 3
  /\ fResult.state = "thrown"
  /\ Len(fUrls) = 2
  /\ idResult.settled = "resolved"
  /\ idResult.name = <<>>
  /\ Len(idResult.reason) = 3
  /\ idResult.reason[1] = "sdk-init-failed"

(***************************************************************************)
(* C20: identity resolution applies its rules in the order launch name, no  *)
(* window, host not on .discordsays.com, no client id, SDK handshake, and   *)
(* the first that matches decides: with a launch name the result is that    *)
(* name with reason query-param whatever the host and without an SDK call   *)
(* or token request; each of the next three rules gives its own reason,     *)
(* again without an SDK call; and the SDK is imported exactly when none of  *)
(* the four matched.                                                        *)
(***************************************************************************)
firstRule ==
  IF pickLaunchName(idWindow, idSearch) # <<>> THEN "query-param"
  ELSE IF ~idWindow THEN "no-window"
  ELSE IF ~endsWithDiscordSays(fHostname) THEN "not-discord-activity-host"
  ELSE IF idClientId = <<>> THEN "missing-client-id"
  ELSE "sdk"

C20_FirstMatchingRuleDecides ==
  /\ sdkLog # <<>> => firstRule = "sdk"
  /\ (idPc # "start" /\ firstRule = "sdk") => (sdkLog # <<>> /\ sdkLog[1].call = "import")
  /\ firstRule # "sdk" => fResult.state = "idle"
  /\ idPc = "done" =>
       /\ firstRule # "sdk" => idResult.reason = <<firstRule>>
       /\ firstRule = "query-param" =>
            /\ idResult.name = pickLaunchName(idWindow, idSearch)
            /\ idResult.id = pickLaunchUserId(idWindow, idSearch)
       /\ firstRule \in {"no-window", "not-discord-activity-host", "missing-client-id"} =>
            idResult.name = <<>>
       /\ firstRule = "sdk" =>
            idResult.reason[1] \in {"sdk-init-failed", "sdk-authorize-no-code",
                                    "oauth-no-access-token", "sdk-auth-user-empty",
                                    "sdk-authenticated"}

\* A launch name on the activity host with a client id configured: the name
\* decided, and the SDK was not touched.
C20_Witness ==
  /\ idPc = "done"
  /\ endsWithDiscordSays(fHostname)
  /\ idClientId # <<>>
  /\ idWindow
  /\ idResult.reason = <<"query-param">>
  /\ idResult.name = <<"Bob">>
  /\ sdkLog = <<>>

(***************************************************************************)
(* Claims about the viewer identity in view state and the mutating          *)
(* handlers' preconditions.                                                 *)
(***************************************************************************)

viewerIdentity == <<viewerId, viewerName, viewerAvatar>>

handshakes == Cardinality({i \in 1..Len(sdkLog) : sdkLog[i].call = "import"})

\* C21: the viewer identity (id, name, avatar) changes only in the one step
\* in which the identity promise of the page load settles, it is then the
\* identity that call resolved with, it never changes afterwards, and the
\* call starts at most one SDK handshake.
C21_IdentityWrittenOnce ==
  [][ /\ viewerIdentity' # viewerIdentity => (identityLoading /\ idPc = "done")
      /\ ~identityLoading => ~identityLoading'
      /\ ~identityLoading' =>
           /\ idPc' = "done"
           /\ idResult'.settled = "resolved"
           /\ viewerIdentity' = <<asAtom(idResult'.id), idResult'.name, idResult'.avatar_url>>
      /\ identityLoading' => viewerIdentity' = <<"", <<>>, <<>> >>
      /\ handshakes' <= 1 ]_vars

\* The SDK handshake ran once and the authenticated user, with id, name and
\* CDN avatar, is in view state.
C21_Witness ==
  /\ ~identityLoading
  /\ handshakes = 1
  /\ viewerId = "7"
  /\ viewerName = <<"bob">>
  /\ viewerAvatar # <<>>

\* C22: while the viewer id is empty (a launch name whose id was discarded
\* included) no mutating request has been sent, by a handler or by the
\* auto-matchmaking effect: none is in flight, no busy flag is set, no
\* message was written, every mutating control is disabled or hidden, and
\* the view-wide error is not set.
C22_NoMutationWithoutViewer ==
  viewerId = "" =>
    /\ dualOps = <<>> /\ tradeOps = {} /\ shopOps = {}
    /\ ~dualBusy
    /\ tradeBusyBySymbol = NoneBusy(Symbols) /\ shopBusyByName = NoneBusy(ShopNames)
    /\ lastAutoReqAt = -1 /\ ~autoFired.fired
    /\ tradeMsg = <<"", "">>
    /\ ~duelPanelShown
    /\ \A a \in {"buy", "sell"}, sy \in Symbols, owned \in {0, 1} : tradeDisabled(a, sy, owned)
    /\ \A n \in ShopNames : shopBuyDisabled(n, TRUE) /\ shopSellDisabled(n)
    /\ error = ""

\* Identity resolved to a launch name without an id; the viewer is on the
\* DUAL tab, where the matchmaking effect was evaluated, and nothing was sent.
C22_Witness ==
  /\ ~identityLoading
  /\ viewerId = ""
  /\ viewerName = <<"Bob">>
  /\ activeTab = "dual"
  /\ dualOps = <<>>

(***************************************************************************)
(* Claims about the submitDual* handlers, checked under SpecHandlers.       *)
(***************************************************************************)

\* The string holds a finite number greater than zero.
finitePositive(str) == str \in {"50", "25"}

\* The step sent nothing, left the busy flag alone and wrote msg.
shortCircuits(msg) ==
  /\ dualOps' = dualOps
  /\ polls' = polls
  /\ dualBusy' = dualBusy
  /\ tradeMsg' = msg

\* C23: a create or ready whose bet is not a finite number greater than zero,
\* and a join whose room code is empty after trimming, send no request, leave
\* the busy flag as it is and write their failure message in the same step;
\* so does the create or join that the auto-matchmaking effect calls.
C23_ValidationShortCircuits ==
  [][ /\ (CallCreate /\ viewerId # "" /\ ~finitePositive(dualCreateBet)) =>
           shortCircuits(<<"DUAL create failed", "bet must be greater than 0">>)
      /\ (CallReady /\ viewerId # "" /\ dualStatus.current_game.code # ""
            /\ ~finitePositive(dualCreateBet)) =>
           shortCircuits(<<"DUAL ready failed", "bet must be greater than 0">>)
      /\ \A c \in {"", " "} :
           (CallJoin(c) /\ viewerId # "") =>
             shortCircuits(<<"DUAL join failed", "room code is required">>)
      /\ (autoFired'.fired /\ autoFired'.lobby = 0
            /\ ~finitePositive(dualCreateBet')) =>
           (/\ ~autoFired'.send
            /\ Len(dualOps') <= Len(dualOps)
            /\ ~dualBusy'
            /\ tradeMsg' = <<"DUAL create failed", "bet must be greater than 0">>)
      /\ autoFired'.send => finitePositive(dualCreateBet') \/ autoFired'.lobby # 0
    ]_vars

\* A ready with a bet that is not a number above zero was refused on the
\* spot, in a lobby whose READY button such a bet disables.
C23_Witness ==
  /\ tradeMsg = <<"DUAL ready failed", "bet must be greater than 0">>
  /\ dualStatus.current_game.status = "lobby"
  /\ ~finitePositive(dualCreateBet)
  /\ dualOps = <<>>
  /\ ~dualBusy

\* The guess field holds an integer (an empty field holds none).
holdsInteger(str) == str \in {"50", "25"}

guessSent == Len(dualOps') > Len(dualOps) /\ Last(dualOps').kind = "guess"

\* C24: a guess request is sent only when the guess field holds an integer;
\* with any other content, the empty field included, the step sends nothing
\* and writes the validation message.
C24_GuessNeedsInteger ==
  [][ /\ guessSent => holdsInteger(dualGuess)
      /\ ((ClickGuess \/ CallGuess) /\ ~holdsInteger(dualGuess)
            /\ dualStatus.current_game.code # "") =>
           shortCircuits(<<"DUAL guess failed", "enter an integer">>) ]_vars

readySent == Len(dualOps') > Len(dualOps) /\ Last(dualOps').kind = "ready"

\* C25: a ready request is sent only from a render whose cached session has
\* at least two players and does not show the viewer as ready, and whose bet
\* is a finite number greater than zero.
C25_ReadyOnlyWhenEnabled ==
  [][ readySent =>
        /\ dualStatus.current_game.player_count >= 2
        /\ finitePositive(dualCreateBet)
        /\ ~dualStatus.current_game.viewer_ready ]_vars

\* The viewer alone in the lobby it created, with a valid bet and nothing in
\* flight: READY is rendered and disabled by the player count only.
C25_Witness ==
  /\ lobbyControlsShown
  /\ dualStatus.current_game.player_count = 1
  /\ finitePositive(dualCreateBet)
  /\ ~dualStatus.current_game.viewer_ready
  /\ ~dualBusy
  /\ dualOps = <<>>
  /\ readyDisabled

\* C26: the step that handles an ok response to a guess, with or without a
\* hint, leaves the guess field empty; the steps that handle an ok:false
\* response or a transport failure of a guess, and a guess refused by the
\* validation, leave the field as it was.
C26_GuessFieldClearedOnSuccess ==
  [][ /\ \A i \in 1..Len(dualOps) :
           dualOps[i].kind = "guess" =>
             /\ OpReplyOk(i) => dualGuess' = ""
             /\ (OpReplyRejected(i) \/ OpTransportError(i)) => dualGuess' = dualGuess
             /\ (OpRefreshDone(i) \/ OpRefreshFail(i)) => dualGuess' = dualGuess
      /\ (CallGuess /\ ~guessSent) => dualGuess' = dualGuess ]_vars

\* A guess of 50 was accepted without a hint: the field is empty while the
\* call is still refreshing the status.
C26_Witness ==
  /\ dualGuess = ""
  /\ tradeMsg = <<"DUAL guess submitted", "">>
  /\ \E i \in 1..Len(dualOps) :
       /\ dualOps[i].kind = "guess"
       /\ dualOps[i].guess = 50
       /\ dualOps[i].hint = ""
       /\ dualOps[i].phase = "refresh"

\* C27: the message written by the step that handles an ok:false response
\* to a guess contains the room code the guess was sent to.
C27_RejectedGuessNamesRoom ==
  [][ \A i \in 1..Len(dualOps) :
        (dualOps[i].kind = "guess" /\ OpReplyRejected(i)) =>
          \E k \in 1..Len(tradeMsg') : tradeMsg'[k] = dualOps[i].code ]_vars

\* The auto-matchmaking effect of the step's commit called a handler that
\* failed its validation and wrote its message, the last write of the step.
autoWrote == autoFired'.fired /\ ~autoFired'.send

\* The slot after the step holds msg, or the message of that later write.
lastWrite(msg) ==
  tradeMsg' = IF autoWrote THEN <<"DUAL create failed", "bet must be greater than 0">>
              ELSE msg

\* C28: a duel call that sent its POST writes the message slot in exactly one
\* step of its life, the one that handles the POST's outcome: the success
\* message on an ok response, the failure message on ok:false or a transport
\* failure (the call then returns); the steps that end a call after its
\* refresh, failed or not, write nothing.  The slot holds one message, that
\* of the last write.
C28_OneMessagePerCall ==
  [][ \A i \in 1..Len(dualOps) :
        LET op == dualOps[i] IN
          /\ OpReplyOk(i) => tradeMsg' = successMsg(op) /\ Len(dualOps') = Len(dualOps)
          /\ OpReplyRejected(i) =>
               /\ op.phase = "replied"
               /\ \E e \in ServerErrors : lastWrite(failureMsg(op, rejectionText(op, e)))
          /\ OpTransportError(i) =>
               /\ op.phase \in {"post", "replied"}
               /\ lastWrite(failureMsg(op, "transport-error"))
          /\ (OpRefreshDone(i) \/ OpRefreshFail(i)) =>
               /\ op.phase \in {"refresh", "refreshed"} /\ op.res = "ok"
               /\ lastWrite(tradeMsg) ]_vars

\* A create was accepted, its message written, and its refresh failed: the
\* call has returned and the slot still holds the success message.
C28_Witness ==
  /\ tradeMsg = <<"DUAL room created", "XY99">>
  /\ dualOps = <<>>
  /\ ~dualBusy
  /\ srvGame.code = "XY99"
  /\ dualStatus = NullStatus

(***************************************************************************)
(* Claims about retries and about the cached session.                       *)
(***************************************************************************)

\* C29: with a backend that rejects every request and no user action after
\* the DUAL tab was opened, the auto-matchmaking effect sends its create or
\* join once: there is no second auto request.
C29_NoAutoRetryAfterRejection == prevAutoReqAt = -1

statusRank(status) ==
  CASE status = "lobby" -> 1
    [] status = "active" -> 2
    [] status = "finished" -> 3
    [] OTHER -> 0

\* C30: against a backend whose session only moves forward, whenever the
\* cached duel status holds a session before and after a step, the session's
\* status has not moved backwards (no Active to Lobby, nothing after
\* Finished but Finished).
C30_CachedStatusOnlyForward ==
  [][ (dualStatus.current_game # NoGame /\ dualStatus'.current_game # NoGame) =>
        /\ dualStatus'.current_game.code = dualStatus.current_game.code
        /\ statusRank(dualStatus'.current_game.status)
             >= statusRank(dualStatus.current_game.status) ]_vars

(***************************************************************************)
(* Claims about the busy flags.                                             *)
(***************************************************************************)

tradeInFlight(symbol) == \E op \in tradeOps : op.symbol = symbol

shopInFlight(name) == \E op \in shopOps : op.name = name

\* C31: the busy flags are per entity. A company row is busy exactly while a
\* trade on its own symbol is in flight and a shop item exactly while an
\* action on its own name is in flight; with a viewer identified, a row or
\* item with no call of its own in flight is never disabled, whatever is in
\* flight on other symbols, other items or the duel; the duel flag is set
\* exactly while a duel call is in flight, and without one READY is disabled
\* by the lobby and the bet alone.
C31_BusyFlagsPerEntity ==
  /\ \A sy \in Symbols : tradeBusyBySymbol[sy] <=> tradeInFlight(sy)
  /\ \A n \in ShopNames : shopBusyByName[n] <=> shopInFlight(n)
  /\ viewerId # "" =>
       /\ \A sy \in Symbols : ~tradeInFlight(sy) => ~tradeDisabled("buy", sy, 0)
       /\ \A n \in ShopNames :
            ~shopInFlight(n) => (~shopBuyDisabled(n, TRUE) /\ ~shopSellDisabled(n))
  /\ dualBusy <=> Len(dualOps) > 0
  /\ (lobbyControlsShown /\ Len(dualOps) = 0) =>
       (readyDisabled <=> \/ dualStatus.current_game.player_count < 2
                          \/ ~validBet(dualCreateBet)
                          \/ dualStatus.current_game.viewer_ready)

\* A trade on AAA, a shop action on Potion and a duel call are in flight
\* together; BBB and Elixir can be clicked.
C31_Witness ==
  /\ tradeInFlight("AAA") /\ ~tradeInFlight("BBB")
  /\ ~tradeDisabled("buy", "BBB", 0)
  /\ shopInFlight("Potion") /\ ~shopInFlight("Elixir")
  /\ ~shopBuyDisabled("Elixir", TRUE) /\ ~shopSellDisabled("Elixir")
  /\ dualBusy /\ Len(dualOps) > 0

(***************************************************************************)
(* Claims about the writers of the cached duel status.                      *)
(***************************************************************************)

\* The duel statuses that tasks in flight have received and will pass to
\* setDualStatus when they resume: polling rounds and the refresh of a call.
pendingDualWrites ==
  {polls[i].data : i \in {k \in 1..Len(polls) : polls[k].state = "ok"}}
    \cup {dualOps[j].snap.data :
             j \in {k \in 1..Len(dualOps) : dualOps[k].phase = "refreshed"}}

\* C32: the cached duel status has a single writer, so its final value does
\* not depend on the order in which concurrent tasks resume: no two tasks
\* in flight (polling rounds, the refresh after a duel call) are about to
\* write different values to it.
C32_DualStatusOrderIndependent == Cardinality(pendingDualWrites) <= 1

(***************************************************************************)
(* Claims about the SDK handshake and the launch parameters.                *)
(***************************************************************************)

HandshakeOrder == <<"import", "ready", "authorize", "authenticate">>

nonBlank(str) == \E i \in 1..Len(str) : str[i] # " "

tokenExchangeStarted == fResult.state # "idle" \/ idPc = "token"

\* C33: the SDK handshake steps happen in the order ready, authorize, token
\* exchange, authenticate, each at most once: the calls made are a prefix of
\* that order, the token exchange is requested only after authorize
\* resolved with a non-blank code and is requested once, and authenticate
\* is called only after the exchange returned a non-blank access token,
\* which it is given.
C33_HandshakeInOrder ==
  /\ [](/\ Len(sdkLog) <= Len(HandshakeOrder)
        /\ \A i \in 1..Len(sdkLog) : sdkLog[i].call = HandshakeOrder[i]
        /\ tokenExchangeStarted =>
             /\ Len(sdkLog) >= 3
             /\ ~sdkLog[3].threw
             /\ nonBlank(sdkLog[3].got)
        /\ Len(sdkLog) = 4 =>
             /\ fResult.state = "returned"
             /\ nonBlank(accessTokenOf(fResult.value))
             /\ nonBlank(sdkLog[4].arg))
  /\ [][ /\ (fResult.state # "pending" /\ fResult'.state = "pending") =>
             (fResult.state = "idle" /\ idPc = "authorize" /\ idPc' = "token")
         /\ Len(sdkLog') >= Len(sdkLog)
         /\ \A i \in 1..Len(sdkLog) : sdkLog'[i].call = sdkLog[i].call ]_vars

\* The whole handshake ran: four calls, the token exchange returned, and the
\* viewer was authenticated.
C33_Witness ==
  /\ idPc = "done"
  /\ Len(sdkLog) = 4
  /\ fResult.state = "returned"
  /\ idResult.reason = <<"sdk-authenticated">>

allDigits(str) == str # <<>> /\ \A i \in 1..Len(str) : str[i] \in Digits

withoutPlus(str) == IF str # <<>> /\ Head(str) = "+" THEN Tail(str) ELSE str

\* The identity returned for a launch name: the name is kept, the reason is
\* query-param, and the id is raw without one leading + if that consists of
\* digits only, and empty otherwise.
launchIdRule(raw) ==
  (idPc = "done" /\ pickLaunchName(idWindow, idSearch) # <<>>) =>
    /\ idResult.name = pickLaunchName(idWindow, idSearch)
    /\ idResult.reason = <<"query-param">>
    /\ idResult.id = IF allDigits(withoutPlus(raw)) THEN withoutPlus(raw) ELSE <<>>

\* C34 as stated: with a launch name present, the launch user id is accepted
\* only if, after removing one optional leading +, it consists of digits
\* only; for every other value the identity has the name, an empty id and
\* reason query-param.
C34_LaunchIdDigitsOnly == launchIdRule(orElse(idSearch.user_id, idSearch.id))

\* C34, amended: the same with the white space around the launch user id
\* removed before the + and the digits are looked at.
C34_LaunchIdDigitsOnlyTrimmed == launchIdRule(trim(orElse(idSearch.user_id, idSearch.id)))

\* Launch names with an id of +42 (accepted as 42) and of 4x (discarded).
C34_Witness ==
  /\ idPc = "done"
  /\ idResult.reason = <<"query-param">>
  /\ \/ idSearch.user_id = <<"+", "4", "2">> /\ idResult.id = <<"4", "2">>
     \/ idSearch.id = <<"4", "x">> /\ idResult.id = <<>> /\ idResult.name = <<"Cy">>

(***************************************************************************)
(* Claims about the messages of the shop handlers.                          *)
(***************************************************************************)

\* C35: once the server answered ok to a shop buy or sell, the message slot
\* keeps what it holds when the call ends, the success message included:
\* the step that ends a call after its ok response, with the reload done or
\* failed, does not write the failure message.
C35_ShopFailureOnlyWhenNotAccepted ==
  [][ \A op \in shopOps :
        (op.phase = "reload" /\ op \notin shopOps') =>
          tradeMsg' # shopFailureMsg(op, "transport-error") ]_vars

(***************************************************************************)
(* Claims about when auto-matchmaking acts.                                 *)
(***************************************************************************)

\* C36: auto-matchmaking never acts blind: an evaluation of the effect that
\* chooses an auto join or create belongs to a render whose cached duel
\* status is present, never to one where it is absent (before the first
\* response, or after a failed fetch reset it to null).
C36_NoAutoActionWithoutStatus == autoFired.fired => dualStatus.loaded

\* After an auto request had gone out, a failed fetch reset the cached
\* status to null on the DUAL tab; the viewer is known, no call is in flight
\* and the throttle has passed: only the missing status holds the effect.
C36_Witness ==
  /\ activeTab = "dual"
  /\ viewerId # ""
  /\ ~dualBusy
  /\ ~dualStatus.loaded
  /\ lastAutoReqAt >= 0
  /\ now - dualAutoActionAtRef >= AUTO_THROTTLE_MS
  /\ ~autoFired.fired

\* C37: auto-matchmaking and the 1500 ms duel poll run only while the DUAL
\* tab is active: an evaluation that chooses an auto join or create belongs
\* to a render of the DUAL tab, whatever the cached duel status holds, and
\* the interval of the duel polling effect can fire on the DUAL tab only.
C37_DuelLoopsOnlyOnDualTab ==
  /\ autoFired.fired => activeTab = "dual"
  /\ (ENABLED PollTimer) => activeTab = "dual"

\* On another tab the cached duel status arrived, shows no session, the
\* viewer is known, no call is in flight and the throttle has passed: only
\* the tab holds the effect.
C37_Witness ==
  /\ activeTab # "dual"
  /\ viewerId # ""
  /\ ~dualBusy
  /\ dualStatus.loaded
  /\ dualStatus.current_game = NoGame
  /\ now - dualAutoActionAtRef >= AUTO_THROTTLE_MS
  /\ ~autoFired.fired
  /\ ~ENABLED PollTimer

(***************************************************************************)
(* Claims about the progress of auto-matchmaking, checked under SpecLive.   *)
(***************************************************************************)

\* The last value the modelled clock takes.
clockEnd == now + ((MaxTime - now) \div TickMs) * TickMs

\* The viewer is identified, on the DUAL tab with a valid bet, has no session
\* on the backend and no duel call in flight; the throttle interval of the
\* last auto action ends within the modelled clock.
awaitingMatch ==
  /\ viewerId # ""
  /\ activeTab = "dual"
  /\ validBet(dualCreateBet)
  /\ srvGame = NoGame
  /\ Len(dualOps) = 0
  /\ dualAutoActionAtRef + AUTO_THROTTLE_MS <= clockEnd

\* C38: if the viewer is identified, stays on the DUAL tab with a valid bet,
\* has no current session, and the duel-status polls keep succeeding, then
\* an auto join or create is eventually issued: an evaluation skipped by
\* the throttle or the busy flag is followed by a later one that sends.
C38_AutoMatchEventuallyIssued == awaitingMatch ~> autoFired.send

\* The throttle holds the effect back after a rejected auto request: no
\* call in flight, the cached status shows no session, 2500 ms have not
\* passed.
C38_Witness ==
  /\ awaitingMatch
  /\ lastAutoReqAt >= 0
  /\ ~dualBusy
  /\ dualStatus.loaded
  /\ dualStatus.current_game = NoGame
  /\ now - dualAutoActionAtRef < AUTO_THROTTLE_MS

(***************************************************************************)
(* Claims about the History tab, checked under SpecHistory.                 *)
(***************************************************************************)

historyCurrent == RowsOf(hist.run, hist.page, viewerId)

\* C39: a history response requested for an earlier page, viewer id or tab
\* visit never overwrites the rows, total or error of the current page: a
\* step in which a request resumes either writes, and then the request is
\* the one of the current run of the effect, on the History tab, for the
\* current page and viewer, or leaves rows, total, error and the loading
\* flag as they are.
C39_StaleHistoryDiscarded ==
  [][ Len(hist'.reqs) < Len(hist.reqs) =>
        IF hist'.wrote # hist.wrote
          THEN /\ activeTab = "history"
               /\ hist'.wrote = historyCurrent
               /\ hist'.page = hist.page
          ELSE /\ hist'.rows = hist.rows
               /\ hist'.total = hist.total
               /\ hist'.error = hist.error
               /\ hist'.loading = hist.loading ]_vars

\* The rows of page 1 were written while the request of an earlier run, for
\* page 0, is still in flight.
C39_Witness ==
  /\ activeTab = "history"
  /\ hist.page = 1
  /\ hist.wrote = historyCurrent
  /\ hist.rows = historyCurrent
  /\ \E k \in 1..Len(hist.reqs) :
       /\ ~hist.reqs[k].mounted
       /\ hist.reqs[k].rows.page = 0
       /\ hist.reqs[k].rows.run < hist.run

====
